---- MODULE Spec2Model ----
(***************************************************************************)
(* A model of Gitlet (madmax96/node-git): repositories on one filesystem,  *)
(* the commands of gitlet.js acting on the repository of the process       *)
(* working directory, and the modules they are built from.                 *)
(*                                                                         *)
(* Conventions                                                             *)
(*  - A repository is a record of the files of its metadata directory      *)
(*    (HEAD, refs, index, objects, MERGE_HEAD, MERGE_MSG, FETCH_HEAD,      *)
(*    config) and of its working copy.                                     *)
(*  - Module members are resolved by name, whatever the case of the first  *)
(*    letter (Files.GitletPath is files.gitletPath, util is Util): the     *)
(*    sources name the same members both ways.                             *)
(*  - The JS value undefined is the string Undef: it prints as that text   *)
(*    when the code builds a string from it.                               *)
(*  - An object of the store is kept parsed (a record), its hash is an     *)
(*    injective text built from its content.  The timestamp of a commit    *)
(*    is an input of commit.                                               *)
(*  - A table of contents, a diff and the index keep the order of their    *)
(*    keys, as JS objects and the index file do.                           *)
(*  - A command is an operator from the world before it to the world       *)
(*    after it, whether it threw, and what it returned or the message of   *)
(*    what it threw.  What a command wrote before it threw stays written.  *)
(***************************************************************************)
EXTENDS Integers, Sequences, FiniteSets, TLC

VARIABLES fs, cwd, util, nsteps, store, caseSensitive, input, output

vars == <<fs, cwd, util, nsteps, store, caseSensitive, input, output>>

\* ------------------------------------------------------------------------
\* Bounds and universes

MaxSteps == 3
\* Writes to the objects directory of StoreSpec.
MaxWrites == 3
\* Commands run in the directories of DirSpec.
MaxDirSteps == 5
\* Commits and merges after the first commit of HistSpec.
MaxCommits == 4
\* Commands of RefSpec.
MaxRefSteps == 3

Undef == "undefined"
NoFile == "<absent>"

Dirs == {"loc", "rem"}
PathSeq == <<"p", "q">>
Paths == {"p", "q"}
Contents == {"x", "y", "z"}
Branches == {"master", "feat"}
Dates == {"d"}
\* Texts passed with -m.
Messages == {"woo", Undef}

\* The words of the model that match [A-Za-z-]+ (refs.js:24-25).
RefWords == {"master", "feat", "dev", "HEAD", "origin", Undef}

Range(s) == {s[i] : i \in 1..Len(s)}

\* No function has been called on drawn arguments.
NoCall == [op |-> "none"]

\* const x = e; F(x): e is evaluated once, before F.
Let(e, F(_)) == CHOOSE y \in {F(x) : x \in {e}} : TRUE

\* ------------------------------------------------------------------------
\* Util

\* The two builds of util.onRemote: the arrow function reads the arguments
\* of onRemote itself, the function expression reads its own.
UtilBuilds == {"arrow", "function"}

intersection(a, b) == SelectSeq(a, LAMBDA e : e \in Range(b))

RECURSIVE unique(_)
unique(arr) ==
  IF arr = <<>> THEN <<>>
  ELSE LET a == unique(SubSeq(arr, 1, Len(arr) - 1))
           p == arr[Len(arr)]
       IN IF p \in Range(a) THEN a ELSE Append(a, p)

RECURSIVE flatten(_)
flatten(arr) == IF arr = <<>> THEN <<>> ELSE Head(arr) \o flatten(Tail(arr))

RECURSIVE JoinEnts(_)
JoinEnts(ents) ==
  IF ents = <<>> THEN ""
  ELSE "blob " \o Head(ents).hash \o " " \o Head(ents).path \o ";" \o JoinEnts(Tail(ents))

RECURSIVE JoinParents(_)
JoinParents(ps) ==
  IF ps = <<>> THEN "" ELSE "parent " \o Head(ps) \o ";" \o JoinParents(Tail(ps))

RECURSIVE JoinLines(_)
JoinLines(ls) == IF ls = <<>> THEN "" ELSE "\n" \o Head(ls) \o JoinLines(Tail(ls))

\* hash of the serialized object: equal contents, equal hashes; different
\* contents, different hashes.
hash(string) ==
  CASE string.type = "blob" -> "b(" \o string.data \o ")"
    [] string.type = "tree" -> "t(" \o JoinEnts(string.ents) \o ")"
    [] string.type = "commit" ->
         "c(" \o string.tree \o ";" \o JoinParents(string.parents)
              \o string.date \o ";" \o string.msg.head
              \o JoinLines(string.msg.conflicts) \o ")"

\* ------------------------------------------------------------------------
\* Tables of contents: ordered maps path -> blob hash

TocKeys(toc) == [i \in 1..Len(toc) |-> toc[i].path]

TocHas(toc, p) == \E i \in 1..Len(toc) : toc[i].path = p

TocGet(toc, p) ==
  IF TocHas(toc, p) THEN toc[CHOOSE i \in 1..Len(toc) : toc[i].path = p].hash
  ELSE Undef

\* obj[p] = h on a JS object: an existing key keeps its place.
setIn(obj, p, h) ==
  IF TocHas(obj, p)
    THEN [i \in 1..Len(obj) |-> IF obj[i].path = p THEN [path |-> p, hash |-> h] ELSE obj[i]]
    ELSE Append(obj, [path |-> p, hash |-> h])

TocAsSet(toc) == {<<toc[i].path, toc[i].hash>> : i \in 1..Len(toc)}

\* ------------------------------------------------------------------------
\* Objects

Blob(content) == [type |-> "blob", data |-> content]
\* A tree object that lacks the last line.
TreeObjLosingLast(ents) ==
  [type |-> "tree", ents |-> IF ents = <<>> THEN <<>> ELSE SubSeq(ents, 1, Len(ents) - 1)]

TreeObj(ents) == [type |-> "tree", ents |-> ents]
CommitObj(treeHash, message, parentHashes, date) ==
  [type |-> "commit", tree |-> treeHash, parents |-> parentHashes,
   date |-> date, msg |-> message]
NoObj == [type |-> Undef]

ObjExists(r, objectHash) == objectHash # Undef /\ objectHash \in DOMAIN r.objects

ObjRead(r, objectHash) ==
  IF ObjExists(r, objectHash) THEN r.objects[objectHash] ELSE NoObj

\* Objects.write: the store after writing str (idempotent).
ObjWrite(r, str) ==
  IF hash(str) \in DOMAIN r.objects THEN r
  ELSE [r EXCEPT !.objects = (hash(str) :> str) @@ r.objects]

\* A file content whose first word is "commit"; the other contents of the
\* model are one word that is none of commit, tree and blob.
CommitText == "commit c"

\* str.split(" ")[0] of a file content.
FirstWord(data) == IF data = CommitText THEN "commit" ELSE data

\* type() of a stored content: its first token is "commit" for a commit and
\* "blob" or "tree" (both map to "tree") for a tree; the content of a file
\* goes by its first word as well.  type(undefined) throws.
type(str) ==
  IF str.type \in {"commit", "tree"} THEN str.type
  ELSE IF str.type # "blob" THEN "blob"
  ELSE IF FirstWord(str.data) = "commit" THEN "commit"
  ELSE IF FirstWord(str.data) \in {"tree", "blob"} THEN "tree"
  ELSE "blob"

allObjects(r) == {r.objects[h] : h \in DOMAIN r.objects}

\* parentHashes is defined on commits only (undefined otherwise).
parentHashes(str) == IF str.type = "commit" THEN str.parents ELSE <<>>

\* treeHash that takes the first word of the commit for the second.
treeHashFirstWord(str) == IF str.type = "commit" THEN "commit" ELSE Undef

treeHash(str) == IF str.type = "commit" THEN str.tree ELSE Undef

\* ancestors() throws when it reads a hash that is not stored or not a commit.
RECURSIVE AncestorsOk(_, _)
AncestorsOk(r, commitHash) ==
  /\ ObjExists(r, commitHash)
  /\ type(ObjRead(r, commitHash)) = "commit"
  /\ \A i \in 1..Len(ObjRead(r, commitHash).parents) :
        AncestorsOk(r, ObjRead(r, commitHash).parents[i])

RECURSIVE ancestors(_, _)
ancestors(r, commitHash) ==
  LET parents == parentHashes(ObjRead(r, commitHash))
  IN parents \o flatten([i \in 1..Len(parents) |-> ancestors(r, parents[i])])

isAncestor(r, descendentHash, ancestorHash) ==
  ancestorHash \in Range(ancestors(r, descendentHash))

isUpToDate(r, receiverHash, giverHash) ==
  /\ receiverHash # Undef
  /\ (receiverHash = giverHash \/ isAncestor(r, receiverHash, giverHash))

\* fileTree + flattenNestedTree: the listing of the commit's tree.
commitToc(r, h) ==
  LET t == ObjRead(r, treeHash(ObjRead(r, h)))
  IN IF t.type = "tree" THEN t.ents ELSE <<>>

\* commitToc(undefined) and commitToc of a missing object throw (type(undefined)).
CommitTocOk(r, h) == ObjExists(r, h)

\* ------------------------------------------------------------------------
\* Refs

toLocalRef(name) == "refs/heads/" \o name

toRemoteRef(remote, name) == "refs/remotes/" \o remote \o "/" \o name

isRef(ref) ==
  /\ ref # Undef
  /\ \/ ref \in {toLocalRef(n) : n \in RefWords}
     \/ ref \in {toRemoteRef(m, n) : m \in RefWords, n \in RefWords}
     \/ ref \in {"HEAD", "FETCH_HEAD", "MERGE_HEAD"}

\* HEAD holds "ref: refs/heads/<val>" (sym) or "<val>", a hash.
isHeadDetached(r) == ~r.HEAD.sym

headBranchName(r) == IF ~isHeadDetached(r) THEN r.HEAD.val ELSE Undef

terminalRef(r, ref) ==
  IF ref = "HEAD" /\ ~isHeadDetached(r) THEN toLocalRef(r.HEAD.val)
  ELSE IF isRef(ref) THEN ref
  ELSE toLocalRef(ref)

\* The file of a qualified ref under the metadata directory.
RefFile(r, ref) ==
  CASE ref = "HEAD" -> r.HEAD.val
    [] ref = "MERGE_HEAD" -> r.MERGE_HEAD
    [] ref = "FETCH_HEAD" -> IF r.FETCH_HEAD = <<>> THEN Undef ELSE r.FETCH_HEAD[1].hash
    [] OTHER -> IF ref \in DOMAIN r.refs THEN r.refs[ref] ELSE Undef

RefsExists(r, ref) == isRef(ref) /\ RefFile(r, ref) # Undef

\* FETCH_HEAD is a sequence of lines [hash, branch, url]; the first line of
\* the branch wins.
fetchHeadBranchToMerge(r, branchName) ==
  LET ls == SelectSeq(r.FETCH_HEAD, LAMBDA l : l.branch = branchName)
  IN IF ls = <<>> THEN Undef ELSE ls[1].hash

RefsHash(r, refOrHash) ==
  IF ObjExists(r, refOrHash) THEN refOrHash
  ELSE LET t == terminalRef(r, refOrHash)
       IN IF t = "FETCH_HEAD" THEN fetchHeadBranchToMerge(r, headBranchName(r))
          ELSE IF RefsExists(r, t) THEN RefFile(r, t)
          ELSE Undef

isCheckedOut(r, branchName) == ~r.bare /\ headBranchName(r) = branchName

\* Refs.write with a hash as content.
RefsWrite(r, ref, content) ==
  IF ~isRef(ref) THEN r
  ELSE CASE ref = "HEAD" -> [r EXCEPT !.HEAD = [sym |-> FALSE, val |-> content]]
         [] ref = "MERGE_HEAD" -> [r EXCEPT !.MERGE_HEAD = content]
         [] ref = "FETCH_HEAD" -> r
         [] OTHER -> [r EXCEPT !.refs = (ref :> content) @@ [x \in DOMAIN r.refs \ {ref} |-> r.refs[x]]]

\* Refs.write('HEAD', 'ref: refs/heads/<name>').
RefsWriteHeadSym(r, name) == [r EXCEPT !.HEAD = [sym |-> TRUE, val |-> name]]

\* Refs.write('FETCH_HEAD', line): Files.write overwrites the file.
RefsWriteFetchHead(r, line) == [r EXCEPT !.FETCH_HEAD = <<line>>]

\* Refs.rm that removes nothing.
RefsRmNothing(r, ref) == r

RefsRm(r, ref) ==
  IF ref = "MERGE_HEAD" THEN [r EXCEPT !.MERGE_HEAD = Undef] ELSE r

isMergeInProgress(r) == RefsHash(r, "MERGE_HEAD") # Undef

\* commitParentHashes without its look at MERGE_HEAD.
commitParentHashesOfHead(r) ==
  IF RefsHash(r, "HEAD") = Undef THEN <<>> ELSE <<RefsHash(r, "HEAD")>>

commitParentHashes(r) ==
  LET headHash == RefsHash(r, "HEAD")
  IN IF RefsHash(r, "MERGE_HEAD") # Undef THEN <<headHash, RefsHash(r, "MERGE_HEAD")>>
     ELSE IF headHash = Undef THEN <<>>
     ELSE <<headHash>>

\* ------------------------------------------------------------------------
\* Index: the lines "<path> <stage> <hash>" of the index file, in order

hasFile(r, path, stage) ==
  \E i \in 1..Len(r.index) : r.index[i].path = path /\ r.index[i].stage = stage

\* idx[key] = h on the object read from the file.
IdxPut(idx, path, stage, h) ==
  IF \E i \in 1..Len(idx) : idx[i].path = path /\ idx[i].stage = stage
    THEN [i \in 1..Len(idx) |->
            IF idx[i].path = path /\ idx[i].stage = stage
              THEN [path |-> path, stage |-> stage, hash |-> h] ELSE idx[i]]
    ELSE Append(idx, [path |-> path, stage |-> stage, hash |-> h])

RECURSIVE TocOfEntries(_, _)
TocOfEntries(idx, obj) ==
  IF idx = <<>> THEN obj
  ELSE TocOfEntries(Tail(idx), setIn(obj, Head(idx).path, Head(idx).hash))

\* Index.toc(): every key of the index contributes its path.
IndexToc(r) == TocOfEntries(r.index, <<>>)

isFileInConflict(r, path) == hasFile(r, path, 2)

\* conflictedPaths that finds none.
conflictedPathsNone(r) == <<>>

conflictedPaths(r) ==
  LET c == SelectSeq(r.index, LAMBDA e : e.stage = 2)
  IN [i \in 1..Len(c) |-> c[i].path]

IndexWrite(r, index) == [r EXCEPT !.index = index]

writeRm(r, path) == IndexWrite(r, SelectSeq(r.index, LAMBDA e : e.path # path))

\* _writeStageEntry that hashes the content and does not store it.
writeStageEntryUnstored(r, path, stage, content) ==
  IndexWrite(r, IdxPut(r.index, path, stage, hash(Blob(content))))

\* content is the text of a file or of a blob.
writeStageEntry(r, path, stage, content) ==
  Let(ObjWrite(r, Blob(content)), LAMBDA r1 :
    IndexWrite(r1, IdxPut(r1.index, path, stage, hash(Blob(content)))))

\* writeNonConflict without its writeRm.
writeNonConflictKeepingStages(r, path, content) == writeStageEntry(r, path, 0, content)

writeNonConflict(r, path, content) ==
  Let(writeRm(r, path), LAMBDA r1 : writeStageEntry(r1, path, 0, content))

writeConflict(r, path, receiverContent, giverContent, baseContent) ==
  Let(IF baseContent # Undef THEN writeStageEntry(r, path, 1, baseContent) ELSE r, LAMBDA r1 :
    Let(writeStageEntry(r1, path, 2, receiverContent), LAMBDA r2 :
      writeStageEntry(r2, path, 3, giverContent)))

tocToIndex(toc) ==
  [i \in 1..Len(toc) |-> [path |-> toc[i].path, stage |-> 0, hash |-> toc[i].hash]]

workingCopyToc(r) ==
  LET ps == unique([i \in 1..Len(r.index) |-> r.index[i].path])
      on == SelectSeq(ps, LAMBDA p : r.wc[p] # NoFile)
  IN [i \in 1..Len(on) |-> [path |-> on[i], hash |-> hash(Blob(r.wc[on[i]]))]]

\* p.match("^" + searchPath): the text of searchPath starts the text of p.
\* Of the paths of the model only the directory "a" starts another path.
StartsWith(p, searchPath) == p = searchPath \/ (searchPath = "a" /\ p = "a/b")

matchingFiles(r, pathSpec) ==
  SelectSeq(TocKeys(IndexToc(r)), LAMBDA p : StartsWith(p, pathSpec))

\* path.split(nodePath.sep)
SplitPath(path) == IF path = "a/b" THEN <<"a", "b">> ELSE <<path>>

\* fs.existsSync(path) && fs.statSync(path).isDirectory(): a directory is on
\* disk when a file is below it.
isDirectory(r, path) ==
  \E p \in DOMAIN r.wc : r.wc[p] # NoFile /\ Len(SplitPath(p)) > 1 /\ SplitPath(p)[1] = path

\* ------------------------------------------------------------------------
\* Diff

\* fileStatus without the comparison with the base.
fileStatusNoBase(receiver, giver, base) ==
  IF receiver = giver THEN "SAME"
  ELSE IF receiver # Undef /\ giver # Undef THEN "M"
  ELSE IF giver # Undef THEN "A" ELSE "D"

fileStatus(receiver, giver, base) ==
  LET receiverPresent == receiver # Undef
      basePresent == base # Undef
      giverPresent == giver # Undef
  IN IF receiverPresent /\ giverPresent /\ receiver # giver
       THEN IF receiver # base /\ giver # base THEN "CONFLICT" ELSE "M"
     ELSE IF receiver = giver THEN "SAME"
     ELSE IF \/ (~receiverPresent /\ ~basePresent /\ giverPresent)
             \/ (receiverPresent /\ ~basePresent /\ ~giverPresent) THEN "A"
     ELSE IF \/ (receiverPresent /\ basePresent /\ ~giverPresent)
             \/ (~receiverPresent /\ basePresent /\ giverPresent) THEN "D"
     ELSE Undef

tocDiff(receiver, giver, base) ==
  LET paths == unique(TocKeys(receiver) \o TocKeys(base) \o TocKeys(giver))
  IN [i \in 1..Len(paths) |->
        [path |-> paths[i],
         status |-> fileStatus(TocGet(receiver, paths[i]), TocGet(giver, paths[i]),
                               TocGet(base, paths[i])),
         receiver |-> TocGet(receiver, paths[i]),
         base |-> TocGet(base, paths[i]),
         giver |-> TocGet(giver, paths[i])]]

\* tocDiff without a base that takes the empty listing for the base.
tocDiff2EmptyBase(receiver, giver) == tocDiff(receiver, giver, <<>>)

\* tocDiff called without a base: base = base || receiver.
tocDiff2(receiver, giver) == tocDiff(receiver, giver, receiver)

diff(r, hash1, hash2) ==
  LET a == IF hash1 = Undef THEN IndexToc(r) ELSE commitToc(r, hash1)
      b == IF hash2 = Undef THEN workingCopyToc(r) ELSE commitToc(r, hash2)
  IN tocDiff2(a, b)

nameStatus(dif) == SelectSeq(dif, LAMBDA e : e.status # "SAME")

DiffPaths(dif) == [i \in 1..Len(dif) |-> dif[i].path]

changedFilesCommitWouldOverwrite(r, h) ==
  LET headHash == RefsHash(r, "HEAD")
  IN intersection(DiffPaths(nameStatus(diff(r, headHash, Undef))),
                  DiffPaths(nameStatus(diff(r, headHash, h))))

addedOrModifiedFiles(r) ==
  LET headToc == IF RefsHash(r, "HEAD") # Undef THEN commitToc(r, RefsHash(r, "HEAD")) ELSE <<>>
      wc == nameStatus(tocDiff2(headToc, workingCopyToc(r)))
  IN DiffPaths(SelectSeq(wc, LAMBDA e : e.status # "D"))

\* Status.toString/toBeCommitted: the changes the next commit would include.
toBeCommitted(r) ==
  LET headHash == RefsHash(r, "HEAD")
      headToc == IF headHash = Undef THEN <<>> ELSE commitToc(r, headHash)
  IN nameStatus(tocDiff2(headToc, IndexToc(r)))

\* ------------------------------------------------------------------------
\* Working copy

FilesWrite(r, path, content) == [r EXCEPT !.wc[path] = content]

composeConflict(r, receiverFileHash, giverFileHash) ==
  "<<<<<<\n" \o ObjRead(r, receiverFileHash).data \o "\n======\n"
             \o ObjRead(r, giverFileHash).data \o "\n>>>>>>\n"

\* WorkingCopy.write: the entries of the diff in order; unlinkSync of a
\* missing file throws and leaves what was written before it.
\* One entry of the diff: the repository after it, or the error it throws.
\* One entry of the diff, by a write that removes no file.
WriteEntryKeepingFiles(r, e) ==
  IF e.status \in {"A", "M"}
    THEN [r |-> FilesWrite(r, e.path, ObjRead(r, e.giver).data), err |-> ""]
  ELSE [r |-> r, err |-> ""]

WriteEntry(r, e) ==
  CASE e.status = "A" ->
         LET h == IF e.receiver # Undef THEN e.receiver ELSE e.giver
         IN IF ~ObjExists(r, h) THEN [r |-> r, err |-> "TypeError"]
            ELSE [r |-> FilesWrite(r, e.path, ObjRead(r, h).data), err |-> ""]
    [] e.status = "CONFLICT" ->
         IF ~ObjExists(r, e.receiver) \/ ~ObjExists(r, e.giver)
           THEN [r |-> r, err |-> "TypeError"]
           ELSE [r |-> FilesWrite(r, e.path, composeConflict(r, e.receiver, e.giver)),
                 err |-> ""]
    [] e.status = "M" ->
         IF ~ObjExists(r, e.giver) THEN [r |-> r, err |-> "TypeError"]
         ELSE [r |-> FilesWrite(r, e.path, ObjRead(r, e.giver).data), err |-> ""]
    [] e.status = "D" ->
         IF r.wc[e.path] = NoFile THEN [r |-> r, err |-> "ENOENT"]
         ELSE [r |-> FilesWrite(r, e.path, NoFile), err |-> ""]
    [] OTHER -> [r |-> r, err |-> ""]

RECURSIVE WorkingCopyWrite(_, _)
WorkingCopyWrite(r, dif) ==
  IF dif = <<>> THEN [r |-> r, err |-> ""]
  ELSE Let(WriteEntry(r, Head(dif)), LAMBDA x :
         IF x.err # "" THEN x ELSE WorkingCopyWrite(x.r, Tail(dif)))

\* ------------------------------------------------------------------------
\* Worlds and results

\* The repository of the working directory, and the world with it replaced.
Repo(w) == w.fs[w.cwd]
Put(w, r) == [w EXCEPT !.fs[w.cwd] = r]

\* What a command did: the world after it, whether it threw, and what it
\* returned or the message of what it threw.
Ok(w, res) == [w |-> w, err |-> FALSE, res |-> res]
Err(w, msg) == [w |-> w, err |-> TRUE, res |-> msg]
Threw(o) == o.err

\* A message: its first line and the lines after it.
Msg(text) == [head |-> text, conflicts |-> <<>>]
NoMsg == Msg(NoFile)

BlobData(r, h) == IF ObjExists(r, h) THEN ObjRead(r, h).data ELSE Undef

\* ------------------------------------------------------------------------
\* Merge

\* [aHash, bHash].sort(): an order of the two hash texts, the same for both
\* orders of the arguments.
SortPair(a, b) == CHOOSE s \in {<<a, b>>, <<b, a>>} : TRUE

\* commonAncestor after the sort: the first of sorted[1] and its ancestors
\* that is sorted[2] or one of its ancestors.
commonAncestorSorted(r, sorted) ==
  Let(intersection(<<sorted[1]>> \o ancestors(r, sorted[1]),
                   <<sorted[2]>> \o ancestors(r, sorted[2])), LAMBDA i :
    IF i = <<>> THEN Undef ELSE i[1])

commonAncestor(r, aHash, bHash) == commonAncestorSorted(r, SortPair(aHash, bHash))

canFastForward(r, receiverHash, giverHash) ==
  receiverHash = Undef \/ isAncestor(r, giverHash, receiverHash)

isAForceFetch(r, receiverHash, giverHash) ==
  receiverHash # Undef /\ ~isAncestor(r, giverHash, receiverHash)

mergeDiff(r, receiverHash, giverHash) ==
  tocDiff(commitToc(r, receiverHash), commitToc(r, giverHash),
          commitToc(r, commonAncestor(r, receiverHash, giverHash)))

ConflictsOf(dif) == DiffPaths(SelectSeq(dif, LAMBDA e : e.status = "CONFLICT"))

hasConflicts(r, receiverHash, giverHash) ==
  Len(ConflictsOf(mergeDiff(r, receiverHash, giverHash))) > 0

writeMergeMsg(r, receiverHash, giverHash, ref) ==
  Let(ConflictsOf(mergeDiff(r, receiverHash, giverHash)), LAMBDA c :
    [r EXCEPT !.MERGE_MSG =
       [head |-> "Merge " \o ref \o " into " \o headBranchName(r),
        conflicts |-> IF Len(c) > 0 THEN <<"Conflicts:">> \o c ELSE <<>>]])

\* Index.writeNonConflict(path, content) with the content Objects.read gave:
\* for undefined, writeRm has run when Objects.write throws in Util.hash.
WriteNonConflictRead(r, path, content) ==
  IF content = Undef THEN [r |-> writeRm(r, path), err |-> "TypeError"]
  ELSE [r |-> writeNonConflict(r, path, content), err |-> ""]

\* Index.writeConflict likewise: the stages before the undefined content
\* are written.
WriteConflictRead(r, path, receiverContent, giverContent, baseContent) ==
  Let(IF baseContent # Undef THEN writeStageEntry(r, path, 1, baseContent) ELSE r, LAMBDA r1 :
    IF receiverContent = Undef THEN [r |-> r1, err |-> "TypeError"]
    ELSE IF giverContent = Undef
      THEN [r |-> writeStageEntry(r1, path, 2, receiverContent), err |-> "TypeError"]
    ELSE [r |-> writeConflict(r, path, receiverContent, giverContent, baseContent),
          err |-> ""])

\* One path of Merge.writeIndex: the repository after it and what it threw.
WriteIndexEntry(r, e) ==
  CASE e.status = "CONFLICT" ->
         WriteConflictRead(r, e.path, BlobData(r, e.receiver), BlobData(r, e.giver),
                           BlobData(r, e.base))
    [] e.status = "M" -> WriteNonConflictRead(r, e.path, BlobData(r, e.giver))
    [] e.status \in {"A", "SAME"} ->
         WriteNonConflictRead(r, e.path,
                              BlobData(r, IF e.receiver # Undef THEN e.receiver ELSE e.giver))
    [] OTHER -> [r |-> r, err |-> ""]

RECURSIVE WriteIndexEntries(_, _)
WriteIndexEntries(r, dif) ==
  IF dif = <<>> THEN [r |-> r, err |-> ""]
  ELSE Let(WriteIndexEntry(r, Head(dif)), LAMBDA x :
         IF x.err # "" THEN x ELSE WriteIndexEntries(x.r, Tail(dif)))

MergeWriteIndex(r, receiverHash, giverHash) ==
  Let(mergeDiff(r, receiverHash, giverHash), LAMBDA dif :
    WriteIndexEntries(IndexWrite(r, <<>>), dif))

\* writeFastForwardMerge that moves the branch and leaves the index.
writeFastForwardMergeRefOnly(r, receiverHash, giverHash) ==
  [r |-> RefsWrite(r, toLocalRef(headBranchName(r)), giverHash), err |-> ""]

writeFastForwardMerge(r, receiverHash, giverHash) ==
  Let(RefsWrite(r, toLocalRef(headBranchName(r)), giverHash), LAMBDA r1 :
    Let(IndexWrite(r1, tocToIndex(commitToc(r1, giverHash))), LAMBDA r2 :
      IF r2.bare THEN [r |-> r2, err |-> ""]
      ELSE WorkingCopyWrite(r2,
             tocDiff2(IF receiverHash = Undef THEN <<>> ELSE commitToc(r2, receiverHash),
                      commitToc(r2, giverHash)))))

writeNonFastForwardMerge(r, receiverHash, giverHash, giverRef) ==
  Let(RefsWrite(r, "MERGE_HEAD", giverHash), LAMBDA r1 :
    Let(writeMergeMsg(r1, receiverHash, giverHash, giverRef), LAMBDA r2 :
      Let(MergeWriteIndex(r2, receiverHash, giverHash), LAMBDA x :
        IF x.err # "" \/ x.r.bare THEN x
        ELSE WorkingCopyWrite(x.r, mergeDiff(x.r, receiverHash, giverHash)))))

\* ------------------------------------------------------------------------
\* Commands of gitlet.js

NotBareMsg == "this operation must be run in a work tree"

writeTree(r) == ObjWrite(r, TreeObj(IndexToc(r)))

write_tree(w) == Ok(Put(w, writeTree(Repo(w))), hash(TreeObj(IndexToc(Repo(w)))))

update_ref(w, refToUpdate, refToUpdateTo) ==
  Let(Repo(w), LAMBDA r :
    Let(RefsHash(r, refToUpdateTo), LAMBDA h :
      IF ~ObjExists(r, h) THEN Err(w, "not a valid SHA1")
      ELSE IF ~isRef(refToUpdate) THEN Err(w, "cannot lock the ref")
      ELSE IF type(ObjRead(r, h)) # "commit" THEN Err(w, "cannot refer to non-commit object")
      ELSE Ok(Put(w, RefsWrite(r, terminalRef(r, refToUpdate), h)), Undef)))

update_index(w, path, opts) ==
  Let(Repo(w), LAMBDA r :
    LET isOnDisk == isDirectory(r, path) \/ (path \in DOMAIN r.wc /\ r.wc[path] # NoFile)
        isInIndex == hasFile(r, path, 0)
    IN IF r.bare THEN Err(w, NotBareMsg)
       ELSE IF isDirectory(r, path) THEN Err(w, "is a directory - add files inside")
       ELSE IF opts.remove /\ ~isOnDisk /\ isInIndex
         THEN IF isFileInConflict(r, path) THEN Err(w, "unsupported")
              ELSE Ok(Put(w, writeRm(r, path)), "\n")
       ELSE IF opts.remove /\ ~isOnDisk /\ ~isInIndex THEN Ok(w, "\n")
       ELSE IF ~opts.add /\ isOnDisk /\ ~isInIndex THEN Err(w, "use --add option")
       ELSE IF isOnDisk /\ (opts.add \/ isInIndex)
         THEN Ok(Put(w, writeNonConflict(r, path, r.wc[path])), "\n")
       ELSE IF ~opts.remove /\ ~isOnDisk THEN Err(w, "does not exist and --remove not passed")
       ELSE Ok(w, Undef))

add(w, path) ==
  IF Repo(w).bare THEN Err(w, NotBareMsg)
  ELSE IF Repo(w).wc[path] = NoFile THEN Err(w, "did not match any files")
  ELSE Let(update_index(w, path, [add |-> TRUE, remove |-> FALSE]), LAMBDA o :
         IF Threw(o) THEN o ELSE Ok(o.w, Undef))

\* filesToRm.forEach(p => update_index(p, { remove: true }))
RECURSIVE RemoveEach(_, _)
RemoveEach(w, filesToRm) ==
  IF filesToRm = <<>> THEN Ok(w, Undef)
  ELSE Let(update_index(w, Head(filesToRm), [add |-> FALSE, remove |-> TRUE]), LAMBDA o :
         IF Threw(o) THEN o ELSE RemoveEach(o.w, Tail(filesToRm)))

rm(w, path, opts) ==
  Let(Repo(w), LAMBDA r :
    Let(matchingFiles(r, path), LAMBDA filesToRm :
      IF r.bare THEN Err(w, NotBareMsg)
      ELSE IF opts.f THEN Err(w, "unsupported")
      ELSE IF Len(filesToRm) = 0 THEN Err(w, "did not match any files")
      ELSE IF isDirectory(r, path) /\ ~opts.r
        THEN Err(w, "not removing " \o path \o " recursively without -r")
      ELSE IF Len(intersection(addedOrModifiedFiles(r), filesToRm)) > 0
        THEN Err(w, "these files have changes")
      ELSE RemoveEach(Put(w, [r EXCEPT !.wc = [p \in DOMAIN r.wc |->
                                IF p \in Range(filesToRm) THEN NoFile ELSE r.wc[p]]]),
                      filesToRm)))

writeCommit(r, tree, message, parents) ==
  ObjWrite(r, CommitObj(tree, message, parents, "d"))

\* The commit itself, once the index is written as the tree and the checks
\* have passed.
DoCommit(w, r, tree, opts) ==
  LET inMerge == isMergeInProgress(r)
      headDesc == IF isHeadDetached(r) THEN "detached HEAD" ELSE headBranchName(r)
      m == IF inMerge THEN (IF r.MERGE_MSG = NoMsg THEN Msg(Undef) ELSE r.MERGE_MSG)
           ELSE Msg(opts.m)
      commitHash == hash(CommitObj(tree, m, commitParentHashes(r), "d"))
  IN Let(update_ref(Put(w, writeCommit(r, tree, m, commitParentHashes(r))),
                    "HEAD", commitHash), LAMBDA o :
       IF Threw(o) THEN o
       ELSE IF inMerge
         THEN IF r.MERGE_MSG = NoMsg THEN Err(o.w, "ENOENT")
              ELSE Ok(Put(o.w, RefsRm([Repo(o.w) EXCEPT !.MERGE_MSG = NoMsg], "MERGE_HEAD")),
                      "Merge made by the three-way strategy")
       ELSE Ok(o.w, "[ " \o headDesc \o "  " \o commitHash \o " ]  " \o m.head))

commit(w, opts) ==
  IF Repo(w).bare THEN Err(w, NotBareMsg)
  ELSE Let(writeTree(Repo(w)), LAMBDA r :
    Let(hash(TreeObj(IndexToc(r))), LAMBDA tree :
      IF RefsHash(r, "HEAD") # Undef /\ tree = treeHash(ObjRead(r, RefsHash(r, "HEAD")))
        THEN Err(Put(w, r), "nothing to commit, working directory clean")
      ELSE IF isMergeInProgress(r) /\ Len(conflictedPaths(r)) > 0
        THEN Err(Put(w, r), "cannot commit because you have unmerged files")
      ELSE DoCommit(w, r, tree, opts)))

branchExistsFirst(w, name) ==
  Let(Repo(w), LAMBDA r :
    IF RefsExists(r, toLocalRef(name))
      THEN Err(w, "A branch named " \o name \o " already exists")
    ELSE IF RefsHash(r, "HEAD") = Undef THEN Err(w, "not a valid object name")
    ELSE update_ref(w, toLocalRef(name), RefsHash(r, "HEAD")))

branch(w, name) ==
  Let(Repo(w), LAMBDA r :
    IF RefsHash(r, "HEAD") = Undef THEN Err(w, "not a valid object name")
    ELSE IF RefsExists(r, toLocalRef(name))
      THEN Err(w, "A branch named " \o name \o " already exists")
    ELSE update_ref(w, toLocalRef(name), RefsHash(r, "HEAD")))

\* The checkout itself, once the checks have passed.
DoCheckout(w, r, ref, toHash) ==
  Let(WorkingCopyWrite(r, diff(r, RefsHash(r, "HEAD"), toHash)), LAMBDA wr :
    IF wr.err # "" THEN Err(Put(w, wr.r), wr.err)
    ELSE IF ObjExists(r, ref)
      THEN Let(RefsWrite(wr.r, "HEAD", toHash), LAMBDA r1 :
             Ok(Put(w, IndexWrite(r1, tocToIndex(commitToc(r1, toHash)))),
                "Note: checking out " \o toHash))
    ELSE Let(RefsWriteHeadSym(wr.r, ref), LAMBDA r1 :
           Ok(Put(w, IndexWrite(r1, tocToIndex(commitToc(r1, toHash)))),
              "Switched to branch " \o ref)))

checkout(w, ref) ==
  Let(Repo(w), LAMBDA r :
    Let(RefsHash(r, ref), LAMBDA toHash :
      IF r.bare THEN Err(w, NotBareMsg)
      ELSE IF ~ObjExists(r, toHash) THEN Err(w, "did not match any file(s) known to Gitlet")
      ELSE IF type(ObjRead(r, toHash)) # "commit" THEN Err(w, "reference is not a tree")
      ELSE IF ref = headBranchName(r) \/ (isHeadDetached(r) /\ ref = r.HEAD.val)
        THEN Ok(w, "Already on " \o ref)
      ELSE IF Len(changedFilesCommitWouldOverwrite(r, toHash)) > 0
        THEN Err(w, "local changes would be lost")
      ELSE DoCheckout(w, r, ref, toHash)))

\* The merge itself, once the checks have passed.
DoMerge(w, r, ref, receiverHash, giverHash) ==
  IF canFastForward(r, receiverHash, giverHash)
    THEN Let(writeFastForwardMerge(r, receiverHash, giverHash), LAMBDA ff :
           IF ff.err # "" THEN Err(Put(w, ff.r), ff.err)
           ELSE Ok(Put(w, ff.r), "Fast-forward"))
  ELSE Let(writeNonFastForwardMerge(r, receiverHash, giverHash, ref), LAMBDA nff :
         IF nff.err # "" THEN Err(Put(w, nff.r), nff.err)
         ELSE IF hasConflicts(nff.r, receiverHash, giverHash)
           THEN Ok(Put(w, nff.r),
                   "Automatic merge failed. Fix conflicts and commit the result.")
         ELSE Let(Put(w, nff.r), LAMBDA w1 : commit(w1, [m |-> Undef])))

merge(w, ref) ==
  Let(Repo(w), LAMBDA r :
    Let(RefsHash(r, "HEAD"), LAMBDA receiverHash :
      Let(RefsHash(r, ref), LAMBDA giverHash :
        IF r.bare THEN Err(w, NotBareMsg)
        ELSE IF isHeadDetached(r) THEN Err(w, "unsupported")
        ELSE IF giverHash = Undef THEN Err(w, "expected commit type")
        ELSE IF ~ObjExists(r, giverHash) THEN Err(w, "TypeError")
        ELSE IF type(ObjRead(r, giverHash)) # "commit" THEN Err(w, "expected commit type")
        ELSE IF receiverHash # Undef /\ receiverHash # giverHash
                /\ ~AncestorsOk(r, receiverHash)
          THEN Err(w, "TypeError")
        ELSE IF isUpToDate(r, receiverHash, giverHash) THEN Ok(w, "Already up-to-date")
        ELSE IF Len(changedFilesCommitWouldOverwrite(r, giverHash)) > 0
          THEN Err(w, "local changes would be lost")
        ELSE IF receiverHash # Undef /\ ~AncestorsOk(r, giverHash) THEN Err(w, "TypeError")
        ELSE DoMerge(w, r, ref, receiverHash, giverHash))))

\* ------------------------------------------------------------------------
\* Remote calls

\* What fn receives for an argument x passed after it to the function that
\* onRemote returned.
RemoteArg(u, x) == IF u = "function" THEN x ELSE Undef

\* process.chdir(remotePath) and, when fn returned, process.chdir(originalDir).
AtRemote(w, remotePath) == [w EXCEPT !.cwd = remotePath]
Back(w, originalDir) == [w EXCEPT !.cwd = originalDir]

\* The objects of the store in the order of readdirSync.
RECURSIVE SetToSeq(_)
SetToSeq(S) ==
  IF S = {} THEN <<>>
  ELSE Let(CHOOSE x \in S : TRUE, LAMBDA x : <<x>> \o SetToSeq(S \ {x}))

allObjectsSeq(r) ==
  Let(SetToSeq(DOMAIN r.objects), LAMBDA hs : [i \in 1..Len(hs) |-> r.objects[hs[i]]])

\* A transfer that writes the commits and leaves the rest.
WriteAllCommits(r, objs) ==
  [r EXCEPT !.objects = [h \in DOMAIN r.objects
                              \cup {hash(o) : o \in {x \in Range(objs) : x.type = "commit"}} |->
     IF h \in DOMAIN r.objects THEN r.objects[h]
     ELSE CHOOSE o \in Range(objs) : hash(o) = h]]

\* objs.forEach(Objects.write)
WriteAll(r, objs) ==
  [r EXCEPT !.objects = [h \in DOMAIN r.objects \cup {hash(o) : o \in Range(objs)} |->
     IF h \in DOMAIN r.objects THEN r.objects[h]
     ELSE CHOOSE o \in Range(objs) : hash(o) = h]]

HasRemote(r, name) == name \in DOMAIN r.remotes

DoFetchToLocalRef(w, r, remote, branchName, remoteUrl, newHash) ==
  Let(Put(w, WriteAll(r, allObjectsSeq(w.fs[remoteUrl]))), LAMBDA w1 :
    Let(update_ref(w1, toLocalRef(branchName), newHash), LAMBDA o :
      IF Threw(o) THEN o
      ELSE Ok(Put(o.w, RefsWriteFetchHead(Repo(o.w),
                [hash |-> newHash, branch |-> branchName, url |-> remoteUrl])),
              "From " \o remoteUrl)))

\* The fetch itself, once the remote has the branch.
DoFetch(w, r, remote, branchName, remoteUrl, newHash) ==
  Let(RefsHash(r, toRemoteRef(remote, branchName)), LAMBDA oldHash :
    Let(Put(w, WriteAll(r, allObjectsSeq(w.fs[remoteUrl]))), LAMBDA w1 :
      Let(update_ref(w1, toRemoteRef(remote, branchName), newHash), LAMBDA o :
        IF Threw(o) THEN o
        ELSE Let(Put(o.w, RefsWriteFetchHead(Repo(o.w),
                   [hash |-> newHash, branch |-> branchName, url |-> remoteUrl])), LAMBDA w2 :
               Ok(w2, "From " \o remoteUrl \o
                      (IF isAForceFetch(Repo(w2), oldHash, newHash) THEN " (forced)" ELSE ""))))))

\* fetch that reads the commit the remote has checked out.
fetchRemoteHead(w, u, remote, branchName) ==
  Let(Repo(w), LAMBDA r :
    IF remote = Undef \/ branchName = Undef THEN Err(w, "unsupported")
    ELSE IF ~HasRemote(r, remote) THEN Err(w, "does not appear to be a git repository")
    ELSE Let(RefsHash(w.fs[r.remotes[remote]], RemoteArg(u, "HEAD")), LAMBDA newHash :
           IF newHash = Undef THEN Err(w, "couldn't find remote ref " \o branchName)
           ELSE DoFetch(w, r, remote, branchName, r.remotes[remote], newHash)))

fetch(w, u, remote, branchName) ==
  Let(Repo(w), LAMBDA r :
    IF remote = Undef \/ branchName = Undef THEN Err(w, "unsupported")
    ELSE IF ~HasRemote(r, remote) THEN Err(w, "does not appear to be a git repository")
    ELSE Let(RefsHash(w.fs[r.remotes[remote]], RemoteArg(u, branchName)), LAMBDA newHash :
           IF newHash = Undef THEN Err(w, "couldn't find remote ref " \o branchName)
           ELSE DoFetch(w, r, remote, branchName, r.remotes[remote], newHash)))

pull(w, u, remote, branchName) ==
  IF Repo(w).bare THEN Err(w, NotBareMsg)
  ELSE Let(fetch(w, u, remote, branchName), LAMBDA o :
         IF Threw(o) THEN o ELSE Let(o.w, LAMBDA w1 : merge(w1, "FETCH_HEAD")))

\* The transfer of push: every local object written on the remote, the
\* remote's branch and the local remote-tracking ref updated.
DoPush(w, u, r, remote, branchName, remotePath, giverHash) ==
  Let(allObjectsSeq(r), LAMBDA objs :
    IF u = "arrow" /\ objs # <<>> THEN Err(AtRemote(w, remotePath), "TypeError")
    ELSE Let(AtRemote([w EXCEPT !.fs[remotePath] = WriteAll(w.fs[remotePath], objs)],
                      remotePath), LAMBDA w1 :
      Let(update_ref(w1, RemoteArg(u, toLocalRef(branchName)), RemoteArg(u, giverHash)),
          LAMBDA o :
        IF Threw(o) THEN o
        ELSE Let(Back(o.w, w.cwd), LAMBDA w2 :
          Let(update_ref(w2, toRemoteRef(remote, branchName), giverHash), LAMBDA o2 :
            IF Threw(o2) THEN o2 ELSE Ok(o2.w, "To " \o remotePath))))))

PushChecks(w, u, r, rr, remote, branchName, opts, receiverHash, giverHash) ==
  IF receiverHash # Undef /\ receiverHash # giverHash /\ ~AncestorsOk(r, receiverHash)
    THEN Err(w, "TypeError")
  ELSE IF isUpToDate(r, receiverHash, giverHash) THEN Ok(w, "Already up-to-date")
  ELSE IF ~opts.f /\ receiverHash # Undef /\ ~AncestorsOk(r, giverHash) THEN Err(w, "TypeError")
  ELSE IF ~opts.f /\ ~canFastForward(r, receiverHash, giverHash)
    THEN Err(w, "failed to push some refs to " \o r.remotes[remote])
  ELSE DoPush(w, u, r, remote, branchName, r.remotes[remote], giverHash)

push(w, u, remote, branchName, opts) ==
  Let(Repo(w), LAMBDA r :
    IF remote = Undef \/ branchName = Undef THEN Err(w, "unsupported")
    ELSE IF ~HasRemote(r, remote) THEN Err(w, "does not appear to be a git repository")
    ELSE Let(w.fs[r.remotes[remote]], LAMBDA rr :
      IF isCheckedOut(rr, RemoteArg(u, branchName))
        THEN Err(w, "refusing to update checked out branch " \o branchName)
      ELSE PushChecks(w, u, r, rr, remote, branchName, opts,
                      RefsHash(rr, RemoteArg(u, branchName)), RefsHash(r, branchName))))

remote(w, command, name, path) ==
  Let(Repo(w), LAMBDA r :
    IF command # "add" THEN Err(w, "unsupported")
    ELSE IF HasRemote(r, name) THEN Err(w, "remote " \o name \o " already exists")
    ELSE Ok(Put(w, [r EXCEPT !.remotes = (name :> path) @@ r.remotes]), "\n"))

\* init(): the metadata directory of a new repository.
InitRepo(bare) ==
  [bare |-> bare, remotes |-> <<>>, HEAD |-> [sym |-> TRUE, val |-> "master"],
   refs |-> <<>>, MERGE_HEAD |-> Undef, MERGE_MSG |-> NoMsg, FETCH_HEAD |-> <<>>,
   index |-> <<>>, objects |-> <<>>, wc |-> [p \in Paths |-> NoFile]]

\* ------------------------------------------------------------------------
\* The user's edits of the working copy

WriteFile(w, path, content) == Put(w, FilesWrite(Repo(w), path, content))
RemoveFile(w, path) == Put(w, FilesWrite(Repo(w), path, NoFile))

\* ------------------------------------------------------------------------
\* Histories the initial states are built from, by the commands themselves

Files(cp, cq) == [p \in Paths |-> IF p = "p" THEN cp ELSE cq]

\* Make the working copy and the index hold the files T.
RECURSIVE StageFrom(_, _, _)
StageFrom(w, T, i) ==
  IF i > Len(PathSeq) THEN w
  ELSE LET p == PathSeq[i]
       IN Let(IF T[p] = NoFile THEN RemoveFile(w, p) ELSE WriteFile(w, p, T[p]), LAMBDA w1 :
            Let(IF T[p] = NoFile
                  THEN update_index(w1, p, [add |-> FALSE, remove |-> TRUE]).w
                  ELSE add(w1, p).w, LAMBDA w2 :
              StageFrom(w2, T, i + 1)))

Snapshot(w, T) == Let(StageFrom(w, T, 1), LAMBDA w1 : commit(w1, [m |-> "woo"]).w)

\* commit T0 on master; branch feat; commit T1 on master; checkout feat;
\* commit T2; checkout last.
Diverge(w, h) ==
  Let(Snapshot(w, h.T0), LAMBDA w1 :
    Let(branch(w1, "feat").w, LAMBDA w2 :
      Let(Snapshot(w2, h.T1), LAMBDA w3 :
        Let(checkout(w3, "feat").w, LAMBDA w4 :
          Let(Snapshot(w4, h.T2), LAMBDA w5 : checkout(w5, h.last).w)))))

Hist(T0, T1, T2, last, thenMerge) ==
  [T0 |-> T0, T1 |-> T1, T2 |-> T2, last |-> last, thenMerge |-> thenMerge]

\* A repository straight after init: no commit, HEAD on the unborn master.
NoHistory ==
  Hist(Files(NoFile, NoFile), Files(NoFile, NoFile), Files(NoFile, NoFile), "master", FALSE)

LocHistories ==
  { Hist(Files("x", NoFile), Files("y", NoFile), Files("z", NoFile), "master", FALSE),
    Hist(Files("x", NoFile), Files("y", NoFile), Files("z", NoFile), "master", TRUE),
    Hist(Files("x", "x"), Files("y", NoFile), Files("z", "x"), "master", FALSE),
    Hist(Files("x", NoFile), Files("x", "x"), Files("y", NoFile), "master", FALSE),
    Hist(Files("x", NoFile), Files("x", NoFile), Files("y", NoFile), "master", FALSE),
    NoHistory }

RemHistories ==
  { Hist(Files("x", NoFile), Files("z", NoFile), Files("y", NoFile), "master", FALSE),
    Hist(Files("x", NoFile), Files("z", NoFile), Files("y", NoFile), "feat", FALSE),
    Hist(Files("x", NoFile), Files("x", NoFile), Files("x", NoFile), "feat", FALSE),
    Hist(Files("x", NoFile), Files("y", NoFile), Files("z", NoFile), "feat", FALSE) }

Blank == [fs |-> [d \in Dirs |-> InitRepo(FALSE)], cwd |-> "rem"]

\* rem gets its history, loc records rem as origin and gets its own.
World(lh, rh) ==
  Let(Diverge(Blank, rh), LAMBDA w1 :
    Let(remote([w1 EXCEPT !.cwd = "loc"], "add", "origin", "rem").w, LAMBDA w2 :
      IF lh = NoHistory THEN w2
      ELSE Let(Diverge(w2, lh), LAMBDA w3 :
             IF lh.thenMerge THEN merge(w3, "feat").w ELSE w3)))

\* ------------------------------------------------------------------------
\* Specification

\* The repositories of Spec were made by init and are found by every command:
\* the filesystem does not tell .Gitlet from .gitlet.
Init ==
  /\ util \in UtilBuilds
  /\ nsteps = 0
  /\ store = <<>>
  /\ caseSensitive = FALSE
  /\ input = NoCall
  /\ output = NoCall
  /\ \E lh \in LocHistories, rh \in RemHistories :
       \E w \in {World(lh, rh)} :
         /\ fs = w.fs
         /\ cwd = w.cwd

W == [fs |-> fs, cwd |-> cwd]

\* The world after a command, whether it returned or threw.
Becomes(o) ==
  /\ nsteps' = nsteps + 1
  /\ fs' = o.w.fs
  /\ cwd' = o.w.cwd
  /\ UNCHANGED <<util, store, caseSensitive, input, output>>

Commits(r) == {h \in DOMAIN r.objects : r.objects[h].type = "commit"}

\* What the user names a commit with.
RefArgs == Branches \cup Commits(Repo(W))

Edit ==
  /\ nsteps < MaxSteps
  /\ ~Repo(W).bare
  /\ \E p \in Paths, c \in Contents \cup {NoFile} :
       Becomes(Ok(IF c = NoFile THEN RemoveFile(W, p) ELSE WriteFile(W, p, c), ""))

Add ==
  /\ nsteps < MaxSteps
  /\ \E p \in Paths : Becomes(add(W, p))

Rm ==
  /\ nsteps < MaxSteps
  /\ \E p \in Paths, f \in BOOLEAN : Becomes(rm(W, p, [f |-> f, r |-> FALSE]))

UpdateIndex ==
  /\ nsteps < MaxSteps
  /\ \E p \in Paths, a \in BOOLEAN, d \in BOOLEAN :
       Becomes(update_index(W, p, [add |-> a, remove |-> d]))

Commit ==
  /\ nsteps < MaxSteps
  /\ \E m \in Messages : Becomes(commit(W, [m |-> m]))

Branch ==
  /\ nsteps < MaxSteps
  /\ \E n \in Branches \cup {"dev"} : Becomes(branch(W, n))

Checkout ==
  /\ nsteps < MaxSteps
  /\ \E ref \in RefArgs : Becomes(checkout(W, ref))

Merge ==
  /\ nsteps < MaxSteps
  /\ \E ref \in RefArgs : Becomes(merge(W, ref))

UpdateRef ==
  /\ nsteps < MaxSteps
  /\ \E a \in {"HEAD", toLocalRef("feat")} \cup Branches, b \in Branches \cup {"FETCH_HEAD"} :
       Becomes(update_ref(W, a, b))

Fetch ==
  /\ nsteps < MaxSteps
  /\ \E b \in Branches : Becomes(fetch(W, util, "origin", b))

Pull ==
  /\ nsteps < MaxSteps
  /\ \E b \in Branches : Becomes(pull(W, util, "origin", b))

Push ==
  /\ nsteps < MaxSteps
  /\ \E b \in Branches, f \in BOOLEAN : Becomes(push(W, util, "origin", b, [f |-> f]))

Next ==
  \/ Edit
  \/ Add
  \/ Rm
  \/ UpdateIndex
  \/ Commit
  \/ Branch
  \/ Checkout
  \/ Merge
  \/ UpdateRef
  \/ Fetch
  \/ Pull
  \/ Push

Spec == Init /\ [][Next]_vars

\* ------------------------------------------------------------------------
\* The objects directory under the hash of src/unnamed/part_000: the texts
\* are sequences of character codes, the file names the digits of the hash.

\* 'A', 'B' and 'a'.
CharCodes == {65, 66, 97}
Texts == {<<c>> : c \in CharCodes} \cup {<<c, e>> : c, e \in CharCodes}

\* A 32-bit integer is kept as its two 16-bit halves (two's complement).
Half == 65536

\* (w * 31 + c) | 0
Times31Plus(w, c) ==
  LET lo == w.lo * 31 + c
      hi == w.hi * 31 + (lo \div Half)
  IN [hi |-> hi % Half, lo |-> lo % Half]

\* hashInt after the loop over the characters of string.
RECURSIVE hashInt(_)
hashInt(string) ==
  IF string = <<>> THEN [hi |-> 0, lo |-> 0]
  ELSE Times31Plus(hashInt(SubSeq(string, 1, Len(string) - 1)), string[Len(string)])

\* Math.abs(w)
MathAbs(w) ==
  IF w.hi < Half \div 2 THEN w
  ELSE [hi |-> (Half - 1 - w.hi) + (IF w.lo = 0 THEN 1 ELSE 0), lo |-> (Half - w.lo) % Half]

\* n.toString(16) of n >= 0, as the sequence of its digits.
RECURSIVE toString16(_)
toString16(n) ==
  IF n < 16 THEN <<n>> ELSE toString16(n \div 16) \o <<n % 16>>

\* util.hash
hashHex(string) ==
  LET w == MathAbs(hashInt(string))
  IN IF w.hi = 0 THEN toString16(w.lo)
     ELSE toString16(w.hi) \o <<w.lo \div 4096, (w.lo \div 256) % 16, (w.lo \div 16) % 16, w.lo % 16>>

\* Objects.write(str): files.write overwrites the file of that name.
StoreWrite(st, str) ==
  [n \in DOMAIN st \cup {hashHex(str)} |-> IF n = hashHex(str) THEN str ELSE st[n]]

StoreInit ==
  /\ store = <<>>
  /\ input = NoCall
  /\ output = NoCall
  /\ caseSensitive = FALSE
  /\ nsteps = 0
  /\ util \in UtilBuilds
  /\ cwd = "loc"
  /\ fs = [d \in Dirs |-> InitRepo(FALSE)]

ObjectsWrite ==
  /\ nsteps < MaxWrites
  /\ \E str \in Texts : store' = StoreWrite(store, str)
  /\ nsteps' = nsteps + 1
  /\ UNCHANGED <<fs, cwd, util, caseSensitive, input, output>>

StoreNext == ObjectsWrite

StoreSpec == StoreInit /\ [][StoreNext]_vars

\* ------------------------------------------------------------------------
\* Directories that are not repositories yet: init, clone, status

AllPaths == Paths \cup {"a/b"}

\* A directory without a metadata directory in it, empty or not.
PlainDir == [wc |-> [p \in AllPaths |-> NoFile]]

hasMetadata(d) == "HEAD" \in DOMAIN d

\* The directory init writes, and the one gitletPath looks for.
GitletStructureName == ".Gitlet"
potentialGitletPath == ".gitlet"

toLowerCase(n) == IF n = ".Gitlet" THEN ".gitlet" ELSE n

\* fs.readdirSync of the root of a directory: the metadata (a directory, or
\* the files themselves when bare) and the first names of the files.
readdirSync(d) ==
  (IF ~hasMetadata(d) THEN {}
   ELSE IF d.bare THEN {"HEAD", "config", "objects", "refs"}
   ELSE {GitletStructureName})
  \cup {SplitPath(p)[1] : p \in {q \in DOMAIN d.wc : d.wc[q] # NoFile}}

\* fs.existsSync(name) in a directory of these entries.
existsSync(entries, name, cs) ==
  \E e \in entries : e = name \/ (~cs /\ toLowerCase(e) = toLowerCase(name))

\* Files.inRepo: a config file with [core] in the directory, or a .gitlet
\* directory in it.  No directory of the model is below a repository.
inRepo(w, cs) ==
  LET d == w.fs[w.cwd]
  IN /\ hasMetadata(d)
     /\ \/ d.bare /\ existsSync(readdirSync(d), "config", cs)
        \/ existsSync(readdirSync(d), potentialGitletPath, cs)

NotInRepoMsg == "not a Gitlet repository"

\* init writes HEAD and config and makes objects and refs/heads where they
\* are missing; the files of the directory stay.
init(w, cs, opts) ==
  LET d == w.fs[w.cwd]
  IN IF inRepo(w, cs) THEN Ok(w, Undef)
     ELSE IF hasMetadata(d) /\ ~d.bare /\ ~opts.bare
       THEN Ok(Put(w, [d EXCEPT !.HEAD = [sym |-> TRUE, val |-> "master"],
                                !.remotes = <<>>]), Undef)
     ELSE Ok(Put(w, [InitRepo(opts.bare) EXCEPT !.wc = d.wc]), Undef)

\* The body clone runs in targetPath, after init.
DoClone(w, u, remotePath, targetPath, originalDir) ==
  Let(remote(w, "add", "origin", remotePath).w, LAMBDA w2 :
    Let(RefsHash(w2.fs[remotePath], RemoteArg(u, "master")), LAMBDA remoteHeadHash :
      IF remoteHeadHash = Undef THEN Ok(Back(w2, originalDir), "Cloning into " \o targetPath)
      ELSE Let(fetch(w2, u, "origin", "master"), LAMBDA o :
             IF Threw(o) THEN o
             ELSE Let(writeFastForwardMerge(Repo(o.w), Undef, remoteHeadHash), LAMBDA x :
                    IF x.err # "" THEN Err(Put(o.w, x.r), x.err)
                    ELSE Ok(Back(Put(o.w, x.r), originalDir),
                            "Cloning into " \o targetPath)))))

clone(w, u, cs, remotePath, targetPath, opts) ==
  IF ~inRepo(AtRemote(w, remotePath), cs)
    THEN Err(w, "repository " \o remotePath \o " does not exist")
  ELSE IF readdirSync(w.fs[targetPath]) # {}
    THEN Err(w, targetPath \o " already exists and is not empty")
  ELSE Let(init(AtRemote(w, targetPath), cs, opts).w, LAMBDA w1 :
         IF ~inRepo(w1, cs) THEN Err(w1, NotInRepoMsg)
         ELSE DoClone(w1, u, remotePath, targetPath, w.cwd))

\* Status.toString: the branch line and the four sections, each a list that
\* is left out when empty.
untracked(r) ==
  {n \in readdirSync(r) : ~TocHas(IndexToc(r), n) /\ n # ".gitlet"}

notStagedForCommit(r) == nameStatus(diff(r, Undef, Undef))

StatusToString(r) ==
  [branch |-> headBranchName(r),
   untracked |-> untracked(r),
   unmerged |-> conflictedPaths(r),
   toBeCommitted |-> toBeCommitted(r),
   notStaged |-> notStagedForCommit(r)]

status(w, cs) ==
  IF ~inRepo(w, cs) THEN Err(w, NotInRepoMsg)
  ELSE IF Repo(w).bare THEN Err(w, NotBareMsg)
  ELSE Ok(w, StatusToString(Repo(w)))

\* rem is a repository with a history where init makes repositories that are
\* found, and the directory init left elsewhere; top and dst are plain.
DirInit ==
  /\ util \in UtilBuilds
  /\ caseSensitive \in BOOLEAN
  /\ nsteps = 0
  /\ store = <<>>
  /\ input = NoCall
  /\ output = NoCall
  /\ cwd \in {"top", "dst"}
  /\ \E rh \in RemHistories \cup {NoHistory} :
       fs = [d \in {"top", "rem", "dst"} |->
               IF d # "rem" THEN PlainDir
               ELSE IF caseSensitive \/ rh = NoHistory THEN InitRepo(FALSE)
               ELSE Diverge(Blank, rh).fs["rem"]]

\* A command that starts with Files.assertInRepo.
InRepoBecomes(o) ==
  IF inRepo(W, caseSensitive) THEN Becomes(o) ELSE Becomes(Err(W, NotInRepoMsg))

DirInitCmd ==
  /\ nsteps < MaxDirSteps
  /\ cwd = "dst"
  /\ \E b \in BOOLEAN : Becomes(init(W, caseSensitive, [bare |-> b]))

DirClone ==
  /\ nsteps < MaxDirSteps
  /\ cwd = "top"
  /\ \E b \in BOOLEAN : Becomes(clone(W, util, caseSensitive, "rem", "dst", [bare |-> b]))

DirEdit ==
  /\ nsteps < MaxDirSteps
  /\ cwd = "dst"
  /\ \E c \in {"x", NoFile} : Becomes(Ok([W EXCEPT !.fs["dst"].wc["a/b"] = c], ""))

DirAdd ==
  /\ nsteps < MaxDirSteps
  /\ cwd = "dst"
  /\ InRepoBecomes(add(W, "a/b"))

DirCommit ==
  /\ nsteps < MaxDirSteps
  /\ cwd = "dst"
  /\ InRepoBecomes(commit(W, [m |-> "woo"]))

DirRm ==
  /\ nsteps < MaxDirSteps
  /\ cwd = "dst"
  /\ \E path \in {"a", "a/b"}, rec \in BOOLEAN :
       InRepoBecomes(rm(W, path, [f |-> FALSE, r |-> rec]))

DirNext ==
  \/ DirInitCmd
  \/ DirClone
  \/ DirEdit
  \/ DirAdd
  \/ DirCommit
  \/ DirRm

DirSpec == DirInit /\ [][DirNext]_vars

\* ------------------------------------------------------------------------
\* tocDiff and WorkingCopy.write applied to drawn TOCs

TocPaths == {"p", "a/b"}
BlobHashes == {hash(Blob(c)) : c \in {"x", "y"}}

\* The TOCs over these paths and blobs, in every order of their keys.
Tocs ==
  {t \in UNION {[1..n -> [path : TocPaths, hash : BlobHashes]] : n \in 0..2} :
     \A i, j \in 1..Len(t) : i # j => t[i].path # t[j].path}

\* A repository that stores the blobs, with a working copy whose files are
\* exactly those of toc.
RepoWithFiles(toc) ==
  Let(ObjWrite(ObjWrite(InitRepo(FALSE), Blob("x")), Blob("y")), LAMBDA r :
    [r EXCEPT !.wc = [p \in AllPaths |->
                        IF TocHas(toc, p) THEN ObjRead(r, TocGet(toc, p)).data ELSE NoFile]])

\* The names in the directory at of the working copy ("." is its top).
namesIn(r, at) ==
  IF at = "." THEN readdirSync(r)
  ELSE {SplitPath(p)[2] : p \in {q \in DOMAIN r.wc :
          r.wc[q] # NoFile /\ Len(SplitPath(q)) > 1 /\ SplitPath(q)[1] = at}}

\* forEach(Files.rmEmptyDirs) over the names of the top directory: statSync(n)
\* resolves n in the directory of the process and throws when it is not there.
rmEmptyDirsThrows(r, at) ==
  \E n \in readdirSync(r) \ {potentialGitletPath} : n \notin namesIn(r, at)

\* WorkingCopy.write run by a process in the directory at: the entries of
\* the diff, then the removal of the directories left empty.
WorkingCopyWriteAt(r, dif, at) ==
  Let(WorkingCopyWrite(r, dif), LAMBDA x :
    IF x.err # "" THEN x
    ELSE IF rmEmptyDirsThrows(x.r, at) THEN [r |-> x.r, err |-> "ENOENT"]
    ELSE x)

DiffInit ==
  /\ util = "function"
  /\ caseSensitive = FALSE
  /\ store = <<>>
  /\ nsteps = 0
  /\ cwd = "loc"
  /\ output = NoCall
  /\ \E a \in Tocs, b \in Tocs, c \in Tocs, h \in BOOLEAN, d \in {".", "a"} :
       /\ h \/ c = <<>>
       /\ d = "." \/ TocHas(a, "a/b")
       /\ input = [op |-> "toc", receiver |-> a, giver |-> b, hasBase |-> h, base |-> c,
                   at |-> d]
       /\ fs = [x \in {"loc"} |-> RepoWithFiles(a)]

TocDiffCall ==
  /\ nsteps = 0
  /\ nsteps' = 1
  /\ output' = [op |-> "tocDiff",
                res |-> IF input.hasBase
                          THEN tocDiff(input.receiver, input.giver, input.base)
                          ELSE tocDiff2(input.receiver, input.giver)]
  /\ UNCHANGED <<fs, cwd, util, store, caseSensitive, input>>

WorkingCopyWriteCall ==
  /\ nsteps = 0
  /\ nsteps' = 1
  /\ \E x \in {WorkingCopyWriteAt(Repo(W), tocDiff2(input.receiver, input.giver), input.at)} :
       /\ fs' = [fs EXCEPT ![cwd] = x.r]
       /\ output' = [op |-> "write", err |-> x.err]
  /\ UNCHANGED <<cwd, util, store, caseSensitive, input>>

DiffNext ==
  \/ TocDiffCall
  \/ WorkingCopyWriteCall

DiffSpec == DiffInit /\ [][DiffNext]_vars

\* ------------------------------------------------------------------------
\* commonAncestor applied to histories of commits and merges

\* The commit that commit() writes on top of parents at the n-th date.
\* ancestors() reads the parent lines only, so every commit of these
\* histories has the tree of the first.
HistCommitObj(parents, n) ==
  CommitObj(hash(TreeObj(<<>>)), Msg("woo"), parents, "d" \o ToString(n))

HistInit ==
  /\ util = "function"
  /\ caseSensitive = FALSE
  /\ store = <<>>
  /\ nsteps = 0
  /\ cwd = "loc"
  /\ input = NoCall
  /\ output = NoCall
  /\ fs = [x \in {"loc"} |-> ObjWrite(InitRepo(FALSE), HistCommitObj(<<>>, 0))]

\* commit() with HEAD at h.
HistCommit ==
  /\ nsteps < MaxCommits
  /\ nsteps' = nsteps + 1
  /\ \E h \in Commits(Repo(W)) :
       fs' = [fs EXCEPT ![cwd] = ObjWrite(@, HistCommitObj(<<h>>, nsteps + 1))]
  /\ output' = NoCall
  /\ UNCHANGED <<cwd, util, store, caseSensitive, input>>

\* merge() of y into x and the commit that ends it: neither is an ancestor
\* of the other, or merge had written no commit.
HistMerge ==
  /\ nsteps < MaxCommits
  /\ nsteps' = nsteps + 1
  /\ \E x \in Commits(Repo(W)), y \in Commits(Repo(W)) :
       /\ x # y
       /\ ~isAncestor(Repo(W), x, y)
       /\ ~isAncestor(Repo(W), y, x)
       /\ fs' = [fs EXCEPT ![cwd] = ObjWrite(@, HistCommitObj(<<x, y>>, nsteps + 1))]
  /\ output' = NoCall
  /\ UNCHANGED <<cwd, util, store, caseSensitive, input>>

\* Merge.commonAncestor(a, b).  The hashes of the model are symbolic, so
\* [aHash, bHash].sort() may leave the two in either order.
CommonAncestorCall ==
  /\ output = NoCall
  /\ \E a \in Commits(Repo(W)), b \in Commits(Repo(W)) :
       \E sorted \in {<<a, b>>, <<b, a>>} :
         output' = [op |-> "commonAncestor", a |-> a, b |-> b, first |-> sorted[1],
                    res |-> commonAncestorSorted(Repo(W), sorted)]
  /\ UNCHANGED <<fs, cwd, util, nsteps, store, caseSensitive, input>>

HistNext ==
  \/ HistCommit
  \/ HistMerge
  \/ CommonAncestorCall

HistSpec == HistInit /\ [][HistNext]_vars

\* ------------------------------------------------------------------------
\* merge applied to drawn histories of three commits

\* The trees of the drawn commits.
MergeTrees == {Files(cp, cq) : cp \in {"x", "y", NoFile}, cq \in {"x", "y", NoFile}}

\* loc holds a first commit of T0 on master and feat, then a commit of T1 on
\* master and a commit of T2 on feat (each where the tree differs from T0),
\* all made by the commands; master is checked out, the working copy clean.
MergeInit ==
  /\ util = "function"
  /\ caseSensitive = FALSE
  /\ store = <<>>
  /\ nsteps = 0
  /\ cwd = "loc"
  /\ output = NoCall
  /\ \E T0 \in MergeTrees \ {Files(NoFile, NoFile)}, T1 \in MergeTrees, T2 \in MergeTrees :
       /\ input = [op |-> "trees", T0 |-> T0, T1 |-> T1, T2 |-> T2]
       /\ fs = Diverge([Blank EXCEPT !.cwd = "loc"], Hist(T0, T1, T2, "master", FALSE)).fs

\* merge('feat'), with what it returned or threw.
MergeCall ==
  /\ nsteps = 0
  /\ nsteps' = 1
  /\ \E o \in {merge(W, "feat")} :
       /\ fs' = o.w.fs
       /\ output' = [op |-> "merge", err |-> o.err, res |-> o.res,
                     receiver |-> RefsHash(Repo(W), "HEAD"),
                     giver |-> RefsHash(Repo(W), "feat"), before |-> Repo(W)]
  /\ UNCHANGED <<cwd, util, store, caseSensitive, input>>

\* Merge.writeIndex(receiverHash, giverHash) for master and feat.
WriteIndexCall ==
  /\ nsteps = 0
  /\ nsteps' = 1
  /\ \E x \in {MergeWriteIndex(Repo(W), RefsHash(Repo(W), "HEAD"), RefsHash(Repo(W), "feat"))} :
       /\ fs' = [fs EXCEPT ![cwd] = x.r]
       /\ output' = [op |-> "writeIndex", err |-> x.err,
                     receiver |-> RefsHash(Repo(W), "HEAD"),
                     giver |-> RefsHash(Repo(W), "feat"), before |-> Repo(W)]
  /\ UNCHANGED <<cwd, util, store, caseSensitive, input>>

MergeNext ==
  \/ MergeCall
  \/ WriteIndexCall

MergeSpec == MergeInit /\ [][MergeNext]_vars

\* ------------------------------------------------------------------------
\* update_ref, checkout and commit in a repository whose files may start with
\* the word commit and whose branches are also named by their qualified refs

\* loc has a first commit on master and feat and a commit on each; master is
\* checked out.
RefInit ==
  /\ util = "function"
  /\ caseSensitive = FALSE
  /\ store = <<>>
  /\ nsteps = 0
  /\ cwd = "loc"
  /\ input = NoCall
  /\ output = NoCall
  /\ fs = Diverge([Blank EXCEPT !.cwd = "loc"],
                  Hist(Files("x", NoFile), Files("y", NoFile), Files("z", NoFile),
                       "master", FALSE)).fs

RefEdit ==
  /\ nsteps < MaxRefSteps
  /\ \E p \in Paths, c \in {"x", CommitText} : Becomes(Ok(WriteFile(W, p, c), ""))

RefAdd ==
  /\ nsteps < MaxRefSteps
  /\ \E p \in Paths : Becomes(add(W, p))

\* update_ref(a, b), b a branch or the hash of any stored object.
RefUpdateRef ==
  /\ nsteps < MaxRefSteps
  /\ \E a \in {"HEAD", toLocalRef("master"), toLocalRef("dev")},
        b \in Branches \cup DOMAIN Repo(W).objects :
       Becomes(update_ref(W, a, b))

\* checkout of feat by its short or its qualified name.
RefCheckout ==
  /\ nsteps < MaxRefSteps
  /\ \E ref \in {"feat", toLocalRef("feat")} : Becomes(checkout(W, ref))

RefCommit ==
  /\ nsteps < MaxRefSteps
  /\ Becomes(commit(W, [m |-> "woo"]))

RefNext ==
  \/ RefEdit
  \/ RefAdd
  \/ RefUpdateRef
  \/ RefCheckout
  \/ RefCommit

RefSpec == RefInit /\ [][RefNext]_vars

\* ------------------------------------------------------------------------
\* Properties

HeadToc(r) == IF RefsHash(r, "HEAD") = Undef THEN <<>> ELSE commitToc(r, RefsHash(r, "HEAD"))

\* The file p is on disk and is not what the HEAD commit records for p.
ChangedOnDisk(r, p) == r.wc[p] # NoFile /\ hash(Blob(r.wc[p])) # TocGet(HeadToc(r), p)

\* Applying diff(HEAD, toHash) writes or deletes p.
Touches(r, toHash, p) ==
  /\ ObjExists(r, toHash)
  /\ type(ObjRead(r, toHash)) = "commit"
  /\ \E e \in Range(diff(r, RefsHash(r, "HEAD"), toHash)) : e.path = p /\ e.status # "SAME"

\* C1: checkout(ref) never overwrites or deletes a file of the working copy
\* whose content on disk differs from what the HEAD commit records for its
\* path, a file in neither the HEAD commit nor the index included: whenever
\* diff(HEAD, ref) touches such a file, checkout throws 'local changes would be
\* lost' and leaves HEAD, the index and the working copy as they were.
C1_CheckoutRefusesToClobber ==
  \A ref \in RefArgs, p \in Paths :
    (~Repo(W).bare /\ ChangedOnDisk(Repo(W), p) /\ Touches(Repo(W), RefsHash(Repo(W), ref), p))
      => LET o == checkout(W, ref)
         IN /\ Threw(o)
            /\ o.res = "local changes would be lost"
            /\ Repo(o.w).wc = Repo(W).wc
            /\ Repo(o.w).HEAD = Repo(W).HEAD
            /\ Repo(o.w).index = Repo(W).index

\* C2: in every repository, after any sequence of commands, no path is in the
\* index at stage 0 and also at one of the stages 1, 2, 3.
C2_NoStageZeroBesideConflictStages ==
  \A d \in Dirs, p \in Paths :
    ~(hasFile(fs[d], p, 0) /\ \E stage \in 1..3 : hasFile(fs[d], p, stage))

\* A merge has stopped on a conflict for p and add has then staged the file
\* with the conflict markers: p is at stage 0 alone while MERGE_HEAD is there.
C2_ConflictResolvedByAdd ==
  \E d \in Dirs, p \in Paths :
    /\ fs[d].MERGE_HEAD # Undef
    /\ fs[d].wc[p] \notin Contents \cup {NoFile}
    /\ hasFile(fs[d], p, 0)
    /\ TocGet(IndexToc(fs[d]), p) = hash(Blob(fs[d].wc[p]))

\* C3: a remote call leaves the process working directory where it was,
\* whether the function it ran returned or threw; so does every command, the
\* remote calls of fetch and push included.
C3_RemoteCallRestoresCwd == [][cwd' = cwd]_vars

\* The remote's branch b, the local branch b and the remote-tracking ref.
RemoteOf(w) == w.fs[Repo(w).remotes["origin"]]
RemoteBranch(w, b) == RefFile(RemoteOf(w), toLocalRef(b))
LocalBranch(w, b) == RefFile(Repo(w), toLocalRef(b))
Tracking(w, b) == RefFile(Repo(w), toRemoteRef("origin", b))

\* a is a proper ancestor of g, by the commits of both stores.
AncestorOf(w, a, g) ==
  isAncestor([objects |-> RemoteOf(w).objects @@ Repo(w).objects], g, a)

\* C4: push without f never moves the remote's branch from a commit r to a
\* commit g that does not descend from r: when r is defined, is not g and is
\* not an ancestor of g, push throws 'failed to push some refs to <url>' and
\* the remote's refs and objects and the local remote-tracking ref stay.
C4_NonFastForwardPushRefused ==
  \A b \in Branches :
    (/\ HasRemote(Repo(W), "origin")
     /\ ~isCheckedOut(RemoteOf(W), b)
     /\ RemoteBranch(W, b) # Undef
     /\ RemoteBranch(W, b) # LocalBranch(W, b)
     /\ ~AncestorOf(W, RemoteBranch(W, b), LocalBranch(W, b)))
      => LET o == push(W, util, "origin", b, [f |-> FALSE])
         IN /\ Threw(o)
            /\ o.res = "failed to push some refs to " \o Repo(W).remotes["origin"]
            /\ o.w.fs[Repo(W).remotes["origin"]].refs = RemoteOf(W).refs
            /\ o.w.fs[Repo(W).remotes["origin"]].objects = RemoteOf(W).objects
            /\ RefFile(o.w.fs[cwd], toRemoteRef("origin", b)) = Tracking(W, b)

\* C5: after a push that performs the transfer (the remote does not have the
\* branch checked out and its branch is absent or an ancestor of the local
\* one), the remote's branch, the local branch and the remote-tracking ref
\* hold the same hash and every local object is in the remote's store.
C5_PushTransfers ==
  \A b \in Branches :
    (/\ HasRemote(Repo(W), "origin")
     /\ ~isCheckedOut(RemoteOf(W), b)
     /\ LocalBranch(W, b) # Undef
     /\ \/ RemoteBranch(W, b) = Undef
        \/ AncestorOf(W, RemoteBranch(W, b), LocalBranch(W, b)))
      => LET o == push(W, util, "origin", b, [f |-> FALSE])
             rr == o.w.fs[Repo(W).remotes["origin"]]
             r == o.w.fs[cwd]
         IN /\ RefFile(rr, toLocalRef(b)) = LocalBranch(W, b)
            /\ RefFile(r, toLocalRef(b)) = LocalBranch(W, b)
            /\ RefFile(r, toRemoteRef("origin", b)) = LocalBranch(W, b)
            /\ \A h \in DOMAIN r.objects : h \in DOMAIN rr.objects /\ rr.objects[h] = r.objects[h]

\* C6: push to a remote that is not bare and whose HEAD is attached to the
\* branch throws 'refusing to update checked out branch' and leaves the
\* remote's refs, objects, index and working copy as they were.
C6_PushToCheckedOutBranchRefused ==
  \A b \in Branches, f \in BOOLEAN :
    (/\ HasRemote(Repo(W), "origin")
     /\ ~RemoteOf(W).bare
     /\ RemoteOf(W).HEAD = [sym |-> TRUE, val |-> b])
      => LET o == push(W, util, "origin", b, [f |-> f])
         IN /\ Threw(o)
            /\ o.res = "refusing to update checked out branch " \o b
            /\ o.w.fs[Repo(W).remotes["origin"]] = RemoteOf(W)

\* The commit HEAD resolves to.
HeadCommit(r) == ObjRead(r, RefsHash(r, "HEAD"))

Conflicted(r) == \E p \in Paths : isFileInConflict(r, p)

HeadTree(r) == treeHash(HeadCommit(r))

\* What commit leaves alone when it throws.
SameButObjects(r2, r) ==
  /\ r2.refs = r.refs
  /\ r2.HEAD = r.HEAD
  /\ r2.index = r.index
  /\ r2.MERGE_HEAD = r.MERGE_HEAD
  /\ r2.MERGE_MSG = r.MERGE_MSG

\* C8, as stated: while MERGE_HEAD is present and a path is conflicted in the
\* index, commit throws 'cannot commit because you have unmerged files' and
\* changes no ref, HEAD, index entry, MERGE_HEAD or MERGE_MSG.
C8_AsStated ==
  \A m \in Messages :
    (~Repo(W).bare /\ Repo(W).MERGE_HEAD # Undef /\ Conflicted(Repo(W)))
      => LET o == commit(W, [m |-> m])
         IN /\ Threw(o)
            /\ o.res = "cannot commit because you have unmerged files"
            /\ SameButObjects(Repo(o.w), Repo(W))

\* C8, amended: while MERGE_HEAD is present and a path is conflicted in the
\* index, commit throws and changes no ref, HEAD, index entry, MERGE_HEAD or
\* MERGE_MSG; it throws 'nothing to commit, working directory clean' when the
\* tree of the index is the tree of the HEAD commit, and 'cannot commit because
\* you have unmerged files' when it is not.
C8_CommitRefusedWhileConflicted ==
  \A m \in Messages :
    (~Repo(W).bare /\ Repo(W).MERGE_HEAD # Undef /\ Conflicted(Repo(W)))
      => LET o == commit(W, [m |-> m])
         IN /\ Threw(o)
            /\ o.res = IF hash(TreeObj(IndexToc(Repo(W)))) = HeadTree(Repo(W))
                         THEN "nothing to commit, working directory clean"
                         ELSE "cannot commit because you have unmerged files"
            /\ SameButObjects(Repo(o.w), Repo(W))

\* A commit has been refused in the merge state: the tree of the conflicted
\* index is in the store and no commit has it.
C8_CommitWasRefused ==
  \E d \in Dirs :
    /\ fs[d].MERGE_HEAD # Undef
    /\ Conflicted(fs[d])
    /\ hash(TreeObj(IndexToc(fs[d]))) \in DOMAIN fs[d].objects
    /\ \A h \in Commits(fs[d]) : fs[d].objects[h].tree # hash(TreeObj(IndexToc(fs[d])))

\* The index of r holds path at stage with hash h.
HasEntry(r, path, stage, h) ==
  \E i \in 1..Len(r.index) :
    r.index[i].path = path /\ r.index[i].stage = stage /\ r.index[i].hash = h

\* The merge of feat into master has stopped on a conflict for p.
StoppedOnConflict(r, p) ==
  /\ ~r.bare
  /\ r.HEAD = [sym |-> TRUE, val |-> "master"]
  /\ r.MERGE_HEAD # Undef
  /\ r.MERGE_HEAD = RefFile(r, toLocalRef("feat"))
  /\ r.MERGE_MSG.head = "Merge feat into master"
  /\ r.MERGE_MSG.conflicts # <<>>
  /\ hasFile(r, p, 2)
  /\ hasFile(r, p, 3)

\* The commit made is the merge of feat into master.
MadeMergeCommit(r, r2) ==
  /\ r2.MERGE_HEAD = Undef
  /\ RefsHash(r2, "HEAD") # RefsHash(r, "HEAD")
  /\ HeadCommit(r2).parents = <<RefsHash(r, "HEAD"), r.MERGE_HEAD>>
  /\ HeadCommit(r2).msg.head = "Merge feat into master"

\* C9, as stated: after merge feat into master has stopped on a conflict for a
\* path (the index holds stages 2 and 3 for it), a commit with no flags
\* succeeds, removes MERGE_HEAD and produces a two-parent commit whose message
\* starts with 'Merge feat into master'.
C9_AsStated ==
  \A p \in Paths :
    StoppedOnConflict(Repo(W), p)
      => LET o == commit(W, [m |-> Undef])
         IN ~Threw(o) /\ MadeMergeCommit(Repo(W), Repo(o.w))

\* C9, amended: after merge feat into master has stopped on a conflict, a
\* commit with no flags throws and keeps MERGE_HEAD while a path is conflicted
\* in the index; once no path is conflicted and the tree of the index is not
\* the tree of the HEAD commit, a commit with no flags succeeds, removes
\* MERGE_HEAD and produces a two-parent commit whose message starts with
\* 'Merge feat into master'.
C9_CommitAfterResolvingConflict ==
  LET r == Repo(W)
      o == commit(W, [m |-> Undef])
  IN (/\ ~r.bare
      /\ r.MERGE_HEAD # Undef
      /\ r.MERGE_MSG.head = "Merge feat into master"
      /\ r.MERGE_MSG.conflicts # <<>>)
       => IF Conflicted(r)
            THEN Threw(o) /\ Repo(o.w).MERGE_HEAD = r.MERGE_HEAD
          ELSE IF hash(TreeObj(IndexToc(r))) = HeadTree(r)
            THEN TRUE
          ELSE ~Threw(o) /\ MadeMergeCommit(r, Repo(o.w))

\* The conflict of a merge of feat into master has been resolved and
\* committed: HEAD is at a two-parent commit whose message is that of the
\* merge with its list of conflicts, and MERGE_HEAD is absent.
C9_ResolvedMergeCommitted ==
  \E d \in Dirs :
    /\ RefsHash(fs[d], "HEAD") # Undef
    /\ Len(HeadCommit(fs[d]).parents) = 2
    /\ HeadCommit(fs[d]).msg.head = "Merge feat into master"
    /\ HeadCommit(fs[d]).msg.conflicts # <<>>
    /\ fs[d].MERGE_HEAD = Undef
    /\ ~Conflicted(fs[d])

\* C10: when merge(ref) is not a fast-forward and path p has one content in
\* the receiver's commit and another in the giver's, both unlike the base's,
\* merge returns 'Automatic merge failed. Fix conflicts and commit the
\* result.', MERGE_HEAD holds the giver's hash, the index holds p at stage 2
\* with the receiver's blob and at stage 3 with the giver's, at stage 1 exactly
\* when the base has p, never at stage 0, and the working-copy file p is the
\* receiver's content and the giver's between the conflict markers.
C10_ConflictingMerge ==
  \A ref \in RefArgs, p \in Paths :
    LET r == Repo(W)
        receiverHash == RefsHash(r, "HEAD")
        giverHash == RefsHash(r, ref)
    IN (/\ ~r.bare
        /\ ~isHeadDetached(r)
        /\ receiverHash # Undef
        /\ giverHash # Undef
        /\ ObjExists(r, giverHash)
        /\ type(ObjRead(r, giverHash)) = "commit"
        /\ ~isUpToDate(r, receiverHash, giverHash)
        /\ ~canFastForward(r, receiverHash, giverHash)
        /\ Len(changedFilesCommitWouldOverwrite(r, giverHash)) = 0
        /\ LET rcv == TocGet(commitToc(r, receiverHash), p)
               gvr == TocGet(commitToc(r, giverHash), p)
               bse == TocGet(commitToc(r, commonAncestor(r, receiverHash, giverHash)), p)
           IN rcv # Undef /\ gvr # Undef /\ rcv # gvr /\ rcv # bse /\ gvr # bse)
         => LET o == merge(W, ref)
                r2 == Repo(o.w)
                rcv == TocGet(commitToc(r, receiverHash), p)
                gvr == TocGet(commitToc(r, giverHash), p)
                bse == TocGet(commitToc(r, commonAncestor(r, receiverHash, giverHash)), p)
            IN /\ ~Threw(o)
               /\ o.res = "Automatic merge failed. Fix conflicts and commit the result."
               /\ r2.MERGE_HEAD = giverHash
               /\ HasEntry(r2, p, 2, rcv)
               /\ HasEntry(r2, p, 3, gvr)
               /\ hasFile(r2, p, 1) <=> bse # Undef
               /\ ~hasFile(r2, p, 0)
               /\ r2.wc[p] = composeConflict(r, rcv, gvr)

\* The index of r is the table of contents toc, every path at stage 0.
IndexIsToc(r, toc) ==
  /\ \A i \in 1..Len(r.index) :
       r.index[i].stage = 0 /\ TocGet(toc, r.index[i].path) = r.index[i].hash
  /\ \A p \in Paths : TocHas(toc, p) => hasFile(r, p, 0)

\* merge(ref) in r is the merge of a descendant of the commit of HEAD's branch.
FastForwardCase(r, ref) ==
  /\ ~r.bare
  /\ r.HEAD.sym
  /\ RefsHash(r, "HEAD") # Undef
  /\ RefsHash(r, ref) # Undef
  /\ ObjExists(r, RefsHash(r, ref))
  /\ type(ObjRead(r, RefsHash(r, ref))) = "commit"
  /\ isAncestor(r, RefsHash(r, ref), RefsHash(r, "HEAD"))

\* r2 is r fast-forwarded to g.
FastForwarded(r, r2, g) ==
  /\ r2.HEAD = r.HEAD
  /\ RefFile(r2, toLocalRef(r.HEAD.val)) = g
  /\ IndexIsToc(r2, commitToc(r, g))
  /\ r2.objects = r.objects

OnDisk(r, p, h) ==
  IF h = Undef THEN r.wc[p] = NoFile
  ELSE r.wc[p] # NoFile /\ hash(Blob(r.wc[p])) = h

\* r has no uncommitted change: the index is the TOC of the HEAD commit and
\* every file of that commit is on disk as committed.
NoUncommittedChanges(r) ==
  /\ RefsHash(r, "HEAD") # Undef
  /\ IndexIsToc(r, HeadToc(r))
  /\ \A p \in Paths : TocHas(HeadToc(r), p) => OnDisk(r, p, TocGet(HeadToc(r), p))

\* C14: after a successful checkout(ref) from a working copy with no
\* uncommitted changes, every path of the target commit's TOC is on disk with
\* the target's blob content, every path of the previous HEAD commit that the
\* target lacks is gone from disk, and the index holds exactly the target's TOC
\* at stage 0.
C14_CheckoutWritesTarget ==
  \A ref \in RefArgs \cup {"HEAD", "refs/heads/master", "refs/heads/feat"} :
    LET r == Repo(W)
        o == checkout(W, ref)
        r2 == Repo(o.w)
        toc == commitToc(r, RefsHash(r, ref))
    IN (NoUncommittedChanges(r) /\ ~Threw(o))
         => /\ \A p \in Paths :
                 /\ TocHas(toc, p) => OnDisk(r2, p, TocGet(toc, p))
                 /\ (TocHas(HeadToc(r), p) /\ ~TocHas(toc, p)) => r2.wc[p] = NoFile
            /\ IndexIsToc(r2, toc)

\* The first commit has been checked out by its hash from a commit that has
\* other files: HEAD is detached at it, the index is its TOC and the working
\* copy holds its files and no other.
C14_RootCheckedOut ==
  \E d \in Dirs :
    /\ ~fs[d].HEAD.sym
    /\ ObjExists(fs[d], fs[d].HEAD.val)
    /\ HeadCommit(fs[d]).parents = <<>>
    /\ IndexIsToc(fs[d], HeadToc(fs[d]))
    /\ \A p \in Paths : OnDisk(fs[d], p, TocGet(HeadToc(fs[d]), p))
    /\ \E b \in Branches :
         /\ RefFile(fs[d], toLocalRef(b)) # Undef
         /\ TocAsSet(commitToc(fs[d], RefFile(fs[d], toLocalRef(b)))) # TocAsSet(HeadToc(fs[d]))
         /\ \E p \in Paths : TocHas(commitToc(fs[d], RefFile(fs[d], toLocalRef(b))), p)
                              /\ ~TocHas(HeadToc(fs[d]), p)

\* The forms of ref that Refs.hash resolves: a branch name, a qualified ref,
\* the name HEAD, the hash of a stored commit.
RefForms == RefArgs \cup {"HEAD"} \cup {toLocalRef(b) : b \in Branches}

\* C15: after every successful checkout(ref), for every form of ref that
\* checkout accepts, HEAD resolves to the commit that ref resolved to before
\* the checkout: attached to the branch when ref names a branch, detached at
\* the hash when ref is the hash of a stored object.
C15_CheckoutSetsHead ==
  \A ref \in RefForms :
    LET r == Repo(W)
        o == checkout(W, ref)
        r2 == Repo(o.w)
    IN (~Threw(o) /\ RefsHash(r, ref) # Undef)
         => /\ RefsHash(r2, "HEAD") = RefsHash(r, ref)
            /\ ref \in Branches => r2.HEAD = [sym |-> TRUE, val |-> ref]
            /\ ObjExists(r, ref) => r2.HEAD = [sym |-> FALSE, val |-> ref]

\* C16: across every sequence of writes the object store only grows: an
\* object once stored is never removed, the content stored under a hash never
\* changes, every object's name is the hash of its content, and writing
\* content that is already stored leaves the store unchanged.
C16_StoreOnlyGrows ==
  [][/\ \A n \in DOMAIN store : n \in DOMAIN store' /\ store'[n] = store[n]
     /\ \A n \in DOMAIN store' : n = hashHex(store'[n])
     /\ \A str \in Texts :
          (\E n \in DOMAIN store' : store'[n] = str) => StoreWrite(store', str) = store'
    ]_vars

C18_IndexHashesStored ==
  \A d \in Dirs : \A i \in 1..Len(fs[d].index) :
    /\ ObjExists(fs[d], fs[d].index[i].hash)
    /\ fs[d].objects[fs[d].index[i].hash].type = "blob"

\* A file has been staged with a content no commit has: the index holds its
\* hash at stage 0, the blob is stored and no tree of the store lists it.
C18_StagedNewContent ==
  \E d \in Dirs : \E i \in 1..Len(fs[d].index) :
    /\ fs[d].index[i].stage = 0
    /\ ObjExists(fs[d], fs[d].index[i].hash)
    /\ \A h \in DOMAIN fs[d].objects :
         fs[d].objects[h].type = "tree" =>
           \A j \in 1..Len(fs[d].objects[h].ents) :
             fs[d].objects[h].ents[j].hash # fs[d].index[i].hash

\* ------------------------------------------------------------------------
\* branch

\* Names a user may give a new branch; "v2" is outside [A-Za-z-]+.
BranchNames == Branches \cup {"dev", "v2"}

\* HEAD, the index, the working copy, the merge files and every ref of r2
\* are those of r, but for the refs in the set except.
SameButRefs(r2, r, except) ==
  /\ r2.HEAD = r.HEAD
  /\ r2.index = r.index
  /\ r2.wc = r.wc
  /\ r2.MERGE_HEAD = r.MERGE_HEAD
  /\ r2.MERGE_MSG = r.MERGE_MSG
  /\ r2.FETCH_HEAD = r.FETCH_HEAD
  /\ DOMAIN r.refs \subseteq DOMAIN r2.refs
  /\ DOMAIN r2.refs \subseteq DOMAIN r.refs \cup except
  /\ \A n \in DOMAIN r.refs \ except : r2.refs[n] = r.refs[n]

\* C19 as stated: branch(name) fails with "A branch named <name> already
\* exists" when refs/heads/<name> exists, fails when HEAD resolves to no
\* commit, and otherwise creates refs/heads/<name> at the hash of HEAD; in
\* all cases nothing else changes.
C19_AsStated ==
  \A name \in BranchNames :
    LET r == Repo(W)
        o == branch(W, name)
        r2 == Repo(o.w)
    IN /\ RefFile(r, toLocalRef(name)) # Undef
            => /\ Threw(o)
               /\ o.res = "A branch named " \o name \o " already exists"
       /\ RefsHash(r, "HEAD") = Undef => Threw(o)
       /\ (RefFile(r, toLocalRef(name)) = Undef /\ RefsHash(r, "HEAD") # Undef)
            => /\ ~Threw(o)
               /\ RefFile(r2, toLocalRef(name)) = RefsHash(r, "HEAD")
       /\ SameButRefs(r2, r, IF Threw(o) THEN {} ELSE {toLocalRef(name)})

\* C19: branch(name) fails with "not a valid object name" when HEAD resolves
\* to no commit; otherwise fails with "A branch named <name> already exists"
\* when refs/heads/<name> exists; otherwise fails with "cannot lock the ref"
\* when name does not match [A-Za-z-]+; otherwise creates refs/heads/<name>
\* holding the hash HEAD resolves to.  In all cases HEAD, the index, the
\* working copy and every other ref are unchanged.
C19_BranchCreatesRefAtHead ==
  \A name \in BranchNames :
    LET r == Repo(W)
        o == branch(W, name)
        r2 == Repo(o.w)
    IN /\ IF RefsHash(r, "HEAD") = Undef
            THEN Threw(o) /\ o.res = "not a valid object name"
          ELSE IF RefFile(r, toLocalRef(name)) # Undef
            THEN Threw(o) /\ o.res = "A branch named " \o name \o " already exists"
          ELSE IF name \notin RefWords
            THEN Threw(o) /\ o.res = "cannot lock the ref"
          ELSE /\ ~Threw(o)
               /\ RefFile(r2, toLocalRef(name)) = RefsHash(r, "HEAD")
       /\ SameButRefs(r2, r, IF Threw(o) THEN {} ELSE {toLocalRef(name)})

\* branch has created refs/heads/dev at the commit of HEAD.
C19_BranchMade ==
  LET r == Repo(W)
  IN /\ RefFile(r, toLocalRef("dev")) # Undef
     /\ RefFile(r, toLocalRef("dev")) = RefsHash(r, "HEAD")

\* ------------------------------------------------------------------------
\* FETCH_HEAD

\* C20: a successful fetch(remote, branch) appends its line to FETCH_HEAD:
\* the lines of earlier fetches are still there, followed by the new one.
C20_FetchAppends ==
  \A b \in Branches :
    LET r == Repo(W)
        o == fetch(W, util, "origin", b)
        after == Repo(o.w).FETCH_HEAD
    IN ~Threw(o)
         => /\ Len(after) = Len(r.FETCH_HEAD) + 1
            /\ SubSeq(after, 1, Len(r.FETCH_HEAD)) = r.FETCH_HEAD
            /\ after[Len(after)].branch = b
            /\ after[Len(after)].hash = RefsHash(fs[r.remotes["origin"]], b)

\* ------------------------------------------------------------------------
\* fetch

\* The refs of r under refs/heads/.
LocalHeads(r) ==
  [n \in {m \in DOMAIN r.refs : \E w \in RefWords : m = toLocalRef(w)} |-> r.refs[n]]

\* C21: after a successful fetch(remote, branch) the local
\* refs/remotes/<remote>/<branch> holds the hash of the remote's
\* refs/heads/<branch> and every remote object is in the local store; the
\* local branches, HEAD, index and working copy, and the whole remote
\* repository, are unchanged.
C21_FetchFrame ==
  \A b \in Branches :
    LET r == Repo(W)
        o == fetch(W, util, "origin", b)
        r2 == Repo(o.w)
        url == r.remotes["origin"]
    IN ~Threw(o)
         => /\ RefFile(r2, toRemoteRef("origin", b)) = RefFile(fs[url], toLocalRef(b))
            /\ RefFile(fs[url], toLocalRef(b)) # Undef
            /\ \A h \in DOMAIN fs[url].objects :
                 h \in DOMAIN r2.objects /\ r2.objects[h] = fs[url].objects[h]
            /\ LocalHeads(r2) = LocalHeads(r)
            /\ r2.HEAD = r.HEAD
            /\ r2.index = r.index
            /\ r2.wc = r.wc
            /\ o.w.fs[url] = fs[url]
            /\ o.w.cwd = cwd

\* A fetch has brought a commit the local repository did not have and set
\* the remote-tracking ref to it.
C21_Fetched ==
  LET r == Repo(W)
  IN \E b \in Branches :
       /\ r.FETCH_HEAD # <<>>
       /\ r.FETCH_HEAD[1].branch = b
       /\ RefFile(r, toRemoteRef("origin", b)) = RefFile(fs["rem"], toLocalRef(b))
       /\ RefFile(r, toRemoteRef("origin", b)) \notin
            {RefFile(r, toLocalRef(n)) : n \in Branches}

\* ------------------------------------------------------------------------
\* clone

\* C22: after clone(src, dst) where src has a master branch, dst's
\* refs/heads/master and refs/remotes/origin/master equal src's
\* refs/heads/master, dst's HEAD is attached to master, dst's index is the
\* stage-0 TOC of that commit, dst's working copy (when not bare) holds that
\* commit's files, dst's config records remote origin, and src is unchanged.
C22_CloneCopiesMaster ==
  \A b \in BOOLEAN :
    LET o == clone(W, util, caseSensitive, "rem", "dst", [bare |-> b])
        src == fs["rem"]
        m == RefFile(src, toLocalRef("master"))
        d == o.w.fs["dst"]
    IN (cwd = "top" /\ m # Undef /\ ~Threw(o))
         => /\ RefFile(d, toLocalRef("master")) = m
            /\ RefFile(d, toRemoteRef("origin", "master")) = m
            /\ d.HEAD = [sym |-> TRUE, val |-> "master"]
            /\ d.index = tocToIndex(commitToc(src, m))
            /\ ~b => \A p \in Paths : OnDisk(d, p, TocGet(commitToc(src, m), p))
            /\ d.bare = b
            /\ HasRemote(d, "origin")
            /\ o.w.fs["rem"] = src

\* ------------------------------------------------------------------------
\* init

\* C23: init run in a directory that is not inside a repository leaves it
\* recognised as inside a repository by every later command, with HEAD
\* attached to refs/heads/master, no branch refs, an empty object store and
\* core.bare equal to the bare flag; init run inside a repository leaves
\* HEAD, refs, index, config and objects unchanged.
C23_InitMakesRepository ==
  \A b \in BOOLEAN :
    LET o == init(W, caseSensitive, [bare |-> b])
        d == Repo(o.w)
    IN cwd = "dst"
         => IF inRepo(W, caseSensitive) THEN ~Threw(o) /\ o.w = W
            ELSE /\ ~Threw(o)
                 /\ inRepo(o.w, caseSensitive)
                 /\ \/ ~Threw(status(o.w, caseSensitive))
                    \/ status(o.w, caseSensitive).res # NotInRepoMsg
                 /\ d.HEAD = [sym |-> TRUE, val |-> "master"]
                 /\ LocalHeads(d) = <<>>
                 /\ d.objects = <<>>
                 /\ d.bare = b

\* ------------------------------------------------------------------------
\* status

\* The index, the HEAD commit and the working copy of r all hold a/b alone.
OnlyTrackedFileCommitted(r) ==
  /\ RefsHash(r, "HEAD") # Undef
  /\ TocKeys(HeadToc(r)) = <<"a/b">>
  /\ r.index = tocToIndex(HeadToc(r))
  /\ \A p \in DOMAIN r.wc : OnDisk(r, p, TocGet(HeadToc(r), p))

\* C24: after init, writing a/b, add a/b and commit -m woo, status returns
\* exactly "On branch master" with no section; in general a tracked file
\* inside a subdirectory never makes status list that subdirectory as
\* untracked.
C24_StatusCleanAfterCommit ==
  LET r == Repo(W)
      st == status(W, caseSensitive)
  IN (cwd = "dst" /\ ~Threw(st))
       => /\ TocHas(IndexToc(r), "a/b") => "a" \notin st.res.untracked
          /\ (OnlyTrackedFileCommitted(r) /\ r.HEAD = [sym |-> TRUE, val |-> "master"])
               => st.res = [branch |-> "master", untracked |-> {}, unmerged |-> <<>>,
                            toBeCommitted |-> <<>>, notStaged |-> <<>>]

\* ------------------------------------------------------------------------
\* rm

\* A matching path is on disk and is not what the HEAD commit records.
AddedOrModified(r, p) ==
  r.wc[p] # NoFile /\ hash(Blob(r.wc[p])) # TocGet(HeadToc(r), p)

\* C25: rm(path, opts) fails when opts.f is set, when no indexed path
\* matches, when path is a directory and opts.r is not set, and when a
\* matching path is added or modified in the working copy relative to the
\* HEAD commit; in every failing case the index and the working copy are
\* unchanged, and on success every matching path is gone from disk and from
\* all stages of the index.
C25_RmRemovesOrRefuses ==
  \A path \in Paths, f \in BOOLEAN, rec \in BOOLEAN :
    LET r == Repo(W)
        o == rm(W, path, [f |-> f, r |-> rec])
        r2 == Repo(o.w)
        matching == {p \in Paths : StartsWith(p, path)
                                     /\ \E i \in 1..Len(r.index) : r.index[i].path = p}
    IN /\ (\/ f
           \/ matching = {}
           \/ isDirectory(r, path) /\ ~rec
           \/ \E p \in matching : AddedOrModified(r, p)) => Threw(o)
       /\ Threw(o) => r2.index = r.index /\ r2.wc = r.wc
       /\ ~Threw(o) => \A p \in matching :
            /\ r2.wc[p] = NoFile
            /\ \A i \in 1..Len(r2.index) : r2.index[i].path # p

\* ------------------------------------------------------------------------
\* update_index

InIndex(r, p) == \E i \in 1..Len(r.index) : r.index[i].path = p

\* C26: update_index(path, {remove: true}) for a path that is not on disk and
\* is in conflict in the index (entries at stages 2 and 3) fails with
\* "unsupported" and leaves the index unchanged; for a path not on disk that
\* is in the index without conflict it removes every entry of the path.
C26_UpdateIndexRemove ==
  \A p \in Paths, a \in BOOLEAN :
    LET r == Repo(W)
        o == update_index(W, p, [add |-> a, remove |-> TRUE])
        r2 == Repo(o.w)
    IN (~r.bare /\ r.wc[p] = NoFile)
         => /\ (hasFile(r, p, 2) /\ hasFile(r, p, 3))
                 => /\ Threw(o)
                    /\ o.res = "unsupported"
                    /\ r2.index = r.index
            /\ (InIndex(r, p) /\ ~hasFile(r, p, 2) /\ ~hasFile(r, p, 3))
                 => ~Threw(o) /\ ~InIndex(r2, p)

\* ------------------------------------------------------------------------
\* merge without conflict

\* merge(ref) gets as far as Merge.writeNonFastForwardMerge and the merge diff
\* has no path in conflict.
NonFastForwardNoConflict(r, ref) ==
  /\ ~r.bare
  /\ r.HEAD.sym
  /\ r.MERGE_HEAD = Undef
  /\ RefsHash(r, "HEAD") # Undef
  /\ RefsHash(r, ref) # Undef
  /\ ObjExists(r, RefsHash(r, ref))
  /\ type(ObjRead(r, RefsHash(r, ref))) = "commit"
  /\ ~isUpToDate(r, RefsHash(r, "HEAD"), RefsHash(r, ref))
  /\ changedFilesCommitWouldOverwrite(r, RefsHash(r, ref)) = <<>>
  /\ ~canFastForward(r, RefsHash(r, "HEAD"), RefsHash(r, ref))
  /\ ConflictsOf(mergeDiff(r, RefsHash(r, "HEAD"), RefsHash(r, ref))) = <<>>

\* C27: a non-fast-forward merge whose merge diff has no CONFLICT path
\* creates the merge commit itself and is over on return: MERGE_HEAD and
\* MERGE_MSG are absent and HEAD's branch points to a new commit whose parents
\* are the receiver and the giver, for every pair of diverged commits,
\* pairs with equal trees included.
C27_MergeCommitsItself ==
  \A ref \in RefArgs :
    LET r == Repo(W)
        o == merge(W, ref)
        r2 == Repo(o.w)
    IN NonFastForwardNoConflict(r, ref)
         => /\ ~Threw(o)
            /\ r2.MERGE_HEAD = Undef
            /\ r2.MERGE_MSG = NoMsg
            /\ r2.HEAD = r.HEAD
            /\ RefFile(r2, toLocalRef(r.HEAD.val)) # RefsHash(r, "HEAD")
            /\ HeadCommit(r2).parents = <<RefsHash(r, "HEAD"), RefsHash(r, ref)>>


\* The status the table gives for the hashes of a path in receiver, giver and
\* base.
TableStatus(rcv, giv, bas) ==
  IF rcv = giv THEN "SAME"
  ELSE IF rcv # Undef /\ giv # Undef
    THEN (IF rcv # bas /\ giv # bas THEN "CONFLICT" ELSE "M")
  ELSE IF bas = Undef THEN "A" ELSE "D"

\* The base tocDiff was called with, the receiver when it was omitted.
BaseUsed == IF input.hasBase THEN input.base ELSE input.receiver

\* C28: tocDiff(receiver, giver, base) has one entry for every path of the
\* union of the three TOCs, with the status of the table: SAME when receiver
\* and giver are equal (both absent included), CONFLICT or MODIFY when both
\* are present and differ, ADD or DELETE when one of them is present and the
\* base is absent or present; an omitted base is the receiver, and
\* tocDiff(x, x) is SAME for every path.
C28_TocDiffTable ==
  output.op = "tocDiff" =>
    /\ {output.res[i].path : i \in 1..Len(output.res)}
         = Range(TocKeys(input.receiver)) \cup Range(TocKeys(input.giver))
             \cup Range(TocKeys(BaseUsed))
    /\ \A i, j \in 1..Len(output.res) : i # j => output.res[i].path # output.res[j].path
    /\ \A i \in 1..Len(output.res) :
         output.res[i].status = TableStatus(TocGet(input.receiver, output.res[i].path),
                                            TocGet(input.giver, output.res[i].path),
                                            TocGet(BaseUsed, output.res[i].path))
    /\ (~input.hasBase /\ input.receiver = input.giver)
         => \A i \in 1..Len(output.res) : output.res[i].status = "SAME"

\* tocDiff was called with a base and found a conflict and a deletion.
C28_ConflictAndDelete ==
  /\ output.op = "tocDiff"
  /\ input.hasBase
  /\ \E i, j \in 1..Len(output.res) :
       output.res[i].status = "CONFLICT" /\ output.res[j].status = "D"


\* The files of the working copy are exactly those of toc.
FilesAre(r, toc) ==
  \A p \in DOMAIN r.wc :
    r.wc[p] = IF TocHas(toc, p) THEN ObjRead(r, TocGet(toc, p)).data ELSE NoFile

\* C29: WorkingCopy.write(tocDiff(a, b)) on a working copy whose files are
\* exactly a, all blobs stored, throws nothing and leaves a working copy
\* whose files are exactly b.
C29_WriteTurnsAIntoB ==
  output.op = "write" => output.err = "" /\ FilesAre(Repo(W), input.giver)

\* The same for a process in the top directory of the working copy.
C29_AtTop ==
  (output.op = "write" /\ input.at = ".") => output.err = "" /\ FilesAre(Repo(W), input.giver)

\* The files are those of b wherever the process was.
C29_FilesOnly == output.op = "write" => FilesAre(Repo(W), input.giver)


\* h and its ancestors.
SelfAndAncestors(r, h) == {h} \cup Range(ancestors(r, h))

CommonAncestors(r, a, b) == SelfAndAncestors(r, a) \cap SelfAndAncestors(r, b)

\* The common ancestors that are an ancestor of no other common ancestor.
LowestCommonAncestors(r, a, b) ==
  {c \in CommonAncestors(r, a, b) :
     \A d \in CommonAncestors(r, a, b) \ {c} : ~isAncestor(r, d, c)}

\* C30: in a history built by commit and merge, commonAncestor(a, b) is a
\* commit among a, b and their ancestors that both reach, and when the pair
\* has one lowest common ancestor it is that commit, not an ancestor of it.
C30_MostRecentCommonAncestor ==
  output.op = "commonAncestor" =>
    /\ output.res \in CommonAncestors(Repo(W), output.a, output.b)
    /\ Cardinality(LowestCommonAncestors(Repo(W), output.a, output.b)) = 1
         => output.res \in LowestCommonAncestors(Repo(W), output.a, output.b)

\* The result is a common ancestor in every case.
C30_IsCommonAncestor ==
  output.op = "commonAncestor" =>
    output.res \in CommonAncestors(Repo(W), output.a, output.b)

\* The claim for histories without merge commits.
C30_WithoutMerges ==
  (/\ output.op = "commonAncestor"
   /\ \A h \in Commits(Repo(W)) : Len(ObjRead(Repo(W), h).parents) < 2)
    => (Cardinality(LowestCommonAncestors(Repo(W), output.a, output.b)) = 1
          => output.res \in LowestCommonAncestors(Repo(W), output.a, output.b))


\* The index has the entry of path at stage with this hash.
EntryAt(r, path, stage, h) ==
  \E i \in 1..Len(r.index) :
    r.index[i].path = path /\ r.index[i].stage = stage /\ r.index[i].hash = h

\* receiver and giver have diverged: the merge is not a fast-forward one.
Diverged(r, receiverHash, giverHash) ==
  /\ receiverHash # Undef
  /\ giverHash # Undef
  /\ ~isUpToDate(r, receiverHash, giverHash)
  /\ ~canFastForward(r, receiverHash, giverHash)

\* What the index holds for the entry e of the merge diff.
IndexFollows(r, e) ==
  CASE e.status = "CONFLICT" ->
         /\ EntryAt(r, e.path, 2, e.receiver)
         /\ EntryAt(r, e.path, 3, e.giver)
         /\ ~hasFile(r, e.path, 0)
         /\ IF e.base # Undef THEN EntryAt(r, e.path, 1, e.base) ELSE ~hasFile(r, e.path, 1)
    [] e.status = "M" ->
         EntryAt(r, e.path, 0, e.giver) /\ \A st \in 1..3 : ~hasFile(r, e.path, st)
    [] e.status \in {"A", "SAME"} ->
         /\ EntryAt(r, e.path, 0, IF e.receiver # Undef THEN e.receiver ELSE e.giver)
         /\ \A st \in 1..3 : ~hasFile(r, e.path, st)
    [] OTHER -> \A st \in 0..3 : ~hasFile(r, e.path, st)

\* C31: for diverged commits r and g with a common ancestor, Merge.writeIndex
\* throws nothing and leaves an index that follows mergeDiff(r, g): stages 2
\* and 3 (and 1 when the base has the path) for a CONFLICT path, stage 0 with
\* the giver's blob for MODIFY, stage 0 with the blob of the side that has it
\* for ADD and SAME, no entry for DELETE.
C31_WriteIndexFollowsMergeDiff ==
  (output.op = "writeIndex" /\ Diverged(output.before, output.receiver, output.giver)) =>
    /\ output.err = ""
    /\ \A e \in Range(mergeDiff(output.before, output.receiver, output.giver)) :
         IndexFollows(Repo(W), e)

\* The same when every path of the merge diff is in the receiver or the giver.
C31_NoPathRemovedByBoth ==
  (/\ output.op = "writeIndex"
   /\ Diverged(output.before, output.receiver, output.giver)
   /\ \A e \in Range(mergeDiff(output.before, output.receiver, output.giver)) :
        e.receiver # Undef \/ e.giver # Undef) =>
    /\ output.err = ""
    /\ \A e \in Range(mergeDiff(output.before, output.receiver, output.giver)) :
         IndexFollows(Repo(W), e)


\* C32: Index.toc() holds exactly the stage-0 entries of the index, so a
\* path that is only at stages 1, 2 or 3 is not in it and not in the tree
\* that write_tree builds during a merge.
C32_TocIsStageZero ==
  LET r == Repo(W)
      o == write_tree(W)
  IN /\ \A p \in Paths :
          TocHas(IndexToc(r), p) <=> hasFile(r, p, 0)
     /\ \A p \in Paths :
          hasFile(r, p, 0) => EntryAt(r, p, 0, TocGet(IndexToc(r), p))
     /\ (~Threw(o) /\ isMergeInProgress(r)) =>
          \A e \in Range(ObjRead(Repo(o.w), o.res).ents) : ~isFileInConflict(r, e.path)

\* The paths at stage 0 are in Index.toc() with their stage-0 hash.
C32_StageZeroInToc ==
  \A p \in Paths :
    hasFile(Repo(W), p, 0) => EntryAt(Repo(W), p, 0, TocGet(IndexToc(Repo(W)), p))


\* The commit of branch b in the repository that origin names.
RemoteBranchHash(w, b) == RefsHash(w.fs[Repo(w).remotes["origin"]], b)

\* C33: after pull(origin, b) has returned with HEAD attached to b,
\* Refs.hash('FETCH_HEAD') is the commit the remote's b had when it was
\* fetched, and that commit is the HEAD commit, an ancestor of it, or
\* MERGE_HEAD.
C33_PullMergesFetchedCommit ==
  \A b \in Branches :
    LET r == Repo(W)
        o == pull(W, util, "origin", b)
        r2 == Repo(o.w)
    IN (/\ HasRemote(r, "origin")
        /\ ~isHeadDetached(r)
        /\ headBranchName(r) = b
        /\ ~Threw(o)) =>
         /\ RemoteBranchHash(W, b) # Undef
         /\ RefsHash(r2, "FETCH_HEAD") = RemoteBranchHash(W, b)
         /\ \/ RefsHash(r2, "HEAD") = RemoteBranchHash(W, b)
            \/ isAncestor(r2, RefsHash(r2, "HEAD"), RemoteBranchHash(W, b))
            \/ r2.MERGE_HEAD = RemoteBranchHash(W, b)

\* A pull of the checked-out branch can return having fast-forwarded it to a
\* commit the repository did not have.
C33_PullFastForwards ==
  \E b \in Branches :
    /\ HasRemote(Repo(W), "origin")
    /\ ~isHeadDetached(Repo(W))
    /\ headBranchName(Repo(W)) = b
    /\ ~ObjExists(Repo(W), RemoteBranchHash(W, b))
    /\ ~Threw(pull(W, util, "origin", b))
    /\ pull(W, util, "origin", b).res = "Fast-forward"


\* C34: a merge that throws does not leave the repository in the merge
\* state: when MERGE_HEAD was absent before it, it is absent after it and
\* the index is as it was.
C34_FailedMergeLeavesNoMergeState ==
  \A ref \in RefArgs \cup {"FETCH_HEAD"} :
    LET r == Repo(W)
        o == merge(W, ref)
    IN (Threw(o) /\ r.MERGE_HEAD = Undef) =>
         Repo(o.w).MERGE_HEAD = Undef /\ Repo(o.w).index = r.index

\* A merge that one of the checks of merge() refuses changes nothing.
C34_RefusedMergeChangesNothing ==
  \A ref \in RefArgs \cup {"FETCH_HEAD"} :
    LET o == merge(W, ref)
    IN (/\ Threw(o)
        /\ \/ o.res \in {NotBareMsg, "unsupported", "expected commit type"}
           \/ o.res = "local changes would be lost") => o.w = W


\* C35: in a non-fast-forward merge started from a working copy equal to
\* the receiver commit, every DELETE entry of the merge diff has the path in
\* the receiver, and WorkingCopy.write does not fail on a missing file.
C35_DeleteOnlyWhatExists ==
  (output.op = "merge" /\ Diverged(output.before, output.receiver, output.giver)) =>
    /\ \A e \in Range(mergeDiff(output.before, output.receiver, output.giver)) :
         e.status = "D" => e.receiver # Undef
    /\ ~(output.err /\ output.res = "ENOENT")

\* A DELETE entry whose path the receiver has is unlinked without error.
C35_ReceiverSideDeletes ==
  (/\ output.op = "merge"
   /\ Diverged(output.before, output.receiver, output.giver)
   /\ \A e \in Range(mergeDiff(output.before, output.receiver, output.giver)) :
        e.status = "D" => e.receiver # Undef) =>
    ~(output.err /\ output.res = "ENOENT")


\* The blob of path in the tree of the commit h, Undef when it has none.
BlobIn(r, h, path) == TocGet(commitToc(r, h), path)

\* C36: in a non-fast-forward merge, a path that receiver and giver both
\* changed since the common ancestor, with different results (one side may
\* have removed it), is a CONFLICT entry of the merge diff.
C36_BothChangedIsConflict ==
  (output.op = "merge" /\ Diverged(output.before, output.receiver, output.giver)) =>
    LET r == output.before
        bas == commonAncestor(r, output.receiver, output.giver)
    IN \A p \in Paths :
         (/\ BlobIn(r, output.receiver, p) # BlobIn(r, bas, p)
          /\ BlobIn(r, output.giver, p) # BlobIn(r, bas, p)
          /\ BlobIn(r, output.receiver, p) # BlobIn(r, output.giver, p)) =>
           \E e \in Range(mergeDiff(r, output.receiver, output.giver)) :
             e.path = p /\ e.status = "CONFLICT"

\* The same for the paths that both commits have.
C36_BothPresentIsConflict ==
  (output.op = "merge" /\ Diverged(output.before, output.receiver, output.giver)) =>
    LET r == output.before
        bas == commonAncestor(r, output.receiver, output.giver)
    IN \A p \in Paths :
         (/\ BlobIn(r, output.receiver, p) # Undef
          /\ BlobIn(r, output.giver, p) # Undef
          /\ BlobIn(r, output.receiver, p) # BlobIn(r, bas, p)
          /\ BlobIn(r, output.giver, p) # BlobIn(r, bas, p)
          /\ BlobIn(r, output.receiver, p) # BlobIn(r, output.giver, p)) =>
           \E e \in Range(mergeDiff(r, output.receiver, output.giver)) :
             e.path = p /\ e.status = "CONFLICT"


\* Every ref under refs/heads and refs/remotes holds the hash of a stored
\* object that writeCommit wrote.
RefsHoldCommits(r) ==
  \A n \in DOMAIN r.refs : ObjExists(r, r.refs[n]) /\ ObjRead(r, r.refs[n]).type = "commit"

\* C37: after any commands, update_ref included, every ref under refs/heads
\* and refs/remotes holds the hash of an object that was created as a
\* commit, never of a blob or a tree, whatever the files that were added.
C37_RefsHoldCommits == \A d \in DOMAIN fs : hasMetadata(fs[d]) => RefsHoldCommits(fs[d])


\* The refs under refs/heads and refs/remotes other than n are as they were.
OtherRefsKept(r2, r, n) ==
  /\ DOMAIN r2.refs \ {n} = DOMAIN r.refs \ {n}
  /\ \A k \in DOMAIN r.refs \ {n} : r2.refs[k] = r.refs[k]

\* h is the commit that commit() writes in r: on top of the HEAD commit (and
\* MERGE_HEAD), with the tree of the index.
NewCommit(r2, r, h) ==
  /\ ObjExists(r2, h)
  /\ ObjRead(r2, h).type = "commit"
  /\ ObjRead(r2, h).parents = commitParentHashes(r)
  /\ ObjRead(r2, h).tree = hash(TreeObj(IndexToc(r)))
  /\ h # RefsHash(r, "HEAD")

\* C38: a commit that succeeds with HEAD attached to branch b moves
\* refs/heads/b to the new commit and leaves the HEAD file and every other
\* ref as they were; with HEAD detached it writes the hash of the new commit
\* into HEAD and moves no branch.
C38_CommitKeepsHeadDisposition ==
  \A m \in Messages :
    LET r == Repo(W)
        o == commit(W, [m |-> m])
        r2 == Repo(o.w)
    IN ~Threw(o) =>
         IF isHeadDetached(r)
           THEN /\ isHeadDetached(r2)
                /\ NewCommit(r2, r, r2.HEAD.val)
                /\ r2.refs = r.refs
           ELSE /\ r2.HEAD = r.HEAD
                /\ toLocalRef(headBranchName(r)) \in DOMAIN r2.refs
                /\ NewCommit(r2, r, r2.refs[toLocalRef(headBranchName(r))])
                /\ OtherRefsKept(r2, r, toLocalRef(headBranchName(r)))

\* The same when the name in HEAD is the name of a branch ([A-Za-z-]+).
C38_WhenHeadNamesABranch ==
  \A m \in Messages :
    LET r == Repo(W)
        o == commit(W, [m |-> m])
        r2 == Repo(o.w)
    IN (~Threw(o) /\ (isHeadDetached(r) \/ isRef(toLocalRef(headBranchName(r))))) =>
         IF isHeadDetached(r)
           THEN /\ isHeadDetached(r2)
                /\ NewCommit(r2, r, r2.HEAD.val)
                /\ r2.refs = r.refs
           ELSE /\ r2.HEAD = r.HEAD
                /\ toLocalRef(headBranchName(r)) \in DOMAIN r2.refs
                /\ NewCommit(r2, r, r2.refs[toLocalRef(headBranchName(r))])
                /\ OtherRefsKept(r2, r, toLocalRef(headBranchName(r)))

\* No entry of the diff has the status CONFLICT.
NoConflictIn(dif) == \A i \in 1..Len(dif) : dif[i].status # "CONFLICT"

\* The index of r2 has no entry above stage 0 that the index of r had not.
NoNewStageEntry(r2, r) ==
  \A i \in 1..Len(r2.index) :
    r2.index[i].stage # 0 => \E j \in 1..Len(r.index) : r.index[j] = r2.index[i]

\* Every file that differs between r and r2 and is present in r2 holds the
\* content of its blob in commit toHash, unchanged.
WrittenFromCommit(r2, r, toHash) ==
  \A p \in DOMAIN r2.wc :
    (r2.wc[p] # r.wc[p] /\ r2.wc[p] # NoFile) =>
      /\ TocHas(commitToc(r, toHash), p)
      /\ r2.wc[p] = ObjRead(r, TocGet(commitToc(r, toHash), p)).data

\* merge(ref) passes its checks and takes the fast-forward path.
TakesFastForward(r, ref) ==
  /\ ~r.bare
  /\ ~isHeadDetached(r)
  /\ AncestorsOk(r, RefsHash(r, ref))
  /\ RefsHash(r, "HEAD") # Undef => AncestorsOk(r, RefsHash(r, "HEAD"))
  /\ ~isUpToDate(r, RefsHash(r, "HEAD"), RefsHash(r, ref))
  /\ canFastForward(r, RefsHash(r, "HEAD"), RefsHash(r, ref))

\* C39: a diff computed without a base (diff of two commits, of the index
\* and the working copy, of HEAD and the index, of HEAD and the working
\* copy) has no entry with status CONFLICT; whatever checkout or a
\* fast-forward merge does, it adds no index entry above stage 0 and every
\* file it writes holds the blob of the target commit as it is stored; when
\* they succeed the index has only entries of stage 0.
C39_TwoWayDiffNeverConflicts ==
  LET r == Repo(W)
      hs == Commits(r) \cup {Undef}
      headToc == IF RefsHash(r, "HEAD") \in Commits(r)
                   THEN commitToc(r, RefsHash(r, "HEAD")) ELSE <<>>
  IN /\ \A h1 \in hs, h2 \in hs : NoConflictIn(diff(r, h1, h2))
     /\ NoConflictIn(tocDiff2(headToc, IndexToc(r)))
     /\ NoConflictIn(tocDiff2(headToc, workingCopyToc(r)))
     /\ \A ref \in RefArgs :
          LET o == checkout(W, ref)
              r2 == Repo(o.w)
          IN /\ NoNewStageEntry(r2, r)
             /\ o.w # W => WrittenFromCommit(r2, r, RefsHash(r, ref))
             /\ (~Threw(o) /\ o.w # W) => \A i \in 1..Len(r2.index) : r2.index[i].stage = 0
     /\ \A ref \in RefArgs :
          LET o == merge(W, ref)
              r2 == Repo(o.w)
          IN TakesFastForward(r, ref) =>
               /\ NoNewStageEntry(r2, r)
               /\ WrittenFromCommit(r2, r, RefsHash(r, ref))
               /\ ~Threw(o) => /\ o.res = "Fast-forward"
                               /\ \A i \in 1..Len(r2.index) : r2.index[i].stage = 0

\* A checkout that rewrites a file both commits have with different content.
C39_CheckoutModifiesAFile ==
  \E ref \in RefArgs :
    LET r == Repo(W)
        o == checkout(W, ref)
    IN /\ ~Threw(o)
       /\ o.w # W
       /\ \E p \in Paths :
            /\ r.wc[p] # NoFile
            /\ Repo(o.w).wc[p] # NoFile
            /\ Repo(o.w).wc[p] # r.wc[p]

\* A merge that fast-forwards and rewrites a file both commits have.
C39_FastForwardModifiesAFile ==
  \E ref \in RefArgs :
    LET r == Repo(W)
        o == merge(W, ref)
    IN /\ TakesFastForward(r, ref)
       /\ ~Threw(o)
       /\ \E p \in Paths :
            /\ r.wc[p] # NoFile
            /\ Repo(o.w).wc[p] # NoFile
            /\ Repo(o.w).wc[p] # r.wc[p]

====
